---- MODULE Spec2Model ----
(***************************************************************************)
(* Verification model of the Survive trading agent's position/risk core.   *)
(*                                                                         *)
(*   PositionManager  src/unnamed/part_007                                 *)
(*   RiskManager      src/bot/src/core/riskManager.ts                      *)
(*   SurviveAgent     src/unnamed/part_009 (callers of both)               *)
(*                                                                         *)
(* Numbers.  Prices are integers (1.00 is written 100).  The program uses  *)
(* IEEE doubles; the model evaluates every comparison in exact arithmetic  *)
(* (cross-multiplied integers, stops as reduced fractions <<n, d>>), so a  *)
(* statement about a threshold is checked up to floating-point rounding.   *)
(* Time is the value of Date.now() in milliseconds.  A value that may be   *)
(* null is a sequence: <<>> is null, <<v>> (or <<n, d>>) is a value.       *)
(***************************************************************************)
EXTENDS Integers, Sequences, FiniteSets, TLC

VARIABLES
    now,            \* Date.now(), ms
    positions,      \* PositionManager.positions: mint -> EnhancedPosition
    order,          \* insertion order of the positions Map (its iteration order)
    streamPrices,   \* PositionManager.streamPrices: mint -> last stream price
    tick,           \* the running checkAllPositions call: where its loop stands
    signals,        \* the signals array of the running / last checkAllPositions
    urgent,         \* urgent_exit events emitted by the step just taken
    started,        \* executeSell calls the agent began in the step just taken
    partialExits,   \* per open position: partial_sell signals this process emitted
    risk,           \* RiskManager.state
    dailyResetDate, \* RiskManager.dailyResetDate (UTC day number)
    riskOut,        \* the value returned by the last RiskManager query
    survival,       \* SurvivalManager.state
    sell,           \* the running sellForSurvival call
    survOut,        \* the decision returned by the last checkSurvival
    feed,           \* PriceStreamService: connection state fields
    socks,          \* every WebSocket created so far, with its connect promise
    timers,         \* pending reconnect timers (setTimeout of scheduleReconnect)
    feedEvents,     \* events emitted / probes sent by the step just taken
    shutdown,       \* the caller's last request to the feed was disconnect()
    agent,          \* SurviveAgent: isRunning and its runLoop instances
    store,          \* StorageService.state.positions, with quantities
    holdings,       \* amount and entrySolValue of each EnhancedPosition
    loop,           \* the running tick(): where it stands, what it read
    lastOp          \* the handler that ran last, with its inputs

posVars  == <<positions, order, streamPrices, tick, signals, urgent, started, partialExits>>
riskVars == <<risk, dailyResetDate, riskOut>>
survVars == <<survival, sell, survOut>>
feedVars == <<feed, socks, timers, feedEvents, shutdown>>
tradeVars == <<store, holdings, loop>>
extVars  == <<survVars, feedVars, agent, tradeVars>>

vars == <<now, posVars, riskVars, extVars, lastOp>>

-----------------------------------------------------------------------------
(* Time *)

MsPerMinute == 60 * 1000
MsPerHour   == 60 * MsPerMinute
MsPerDay    == 24 * MsPerHour

Minutes(k) == k * MsPerMinute

-----------------------------------------------------------------------------
(* Exact fractions: <<n, d>> with d > 0, reduced. *)

Abs(x) == IF x < 0 THEN -x ELSE x

RECURSIVE GCD(_, _)
GCD(a, b) == IF b = 0 THEN a ELSE GCD(b, a % b)

Rat(n, d) == LET g == GCD(Abs(n), d) IN <<n \div g, d \div g>>

RatLT(a, b)  == a[1] * b[2] < b[1] * a[2]
RatLE(a, b)  == a[1] * b[2] <= b[1] * a[2]
RatOfInt(x)  == <<x, 1>>

\* JavaScript truthiness of a nullable number: neither null nor 0.
Truthy(v) == v # <<>> /\ v[1] # 0

-----------------------------------------------------------------------------
(* PositionManager configuration (defaults of the constructor). *)

stopLossPercent           == 20
trailingStopPercent       == 15
trailingActivationPercent == 30
takeProfitPercent         == 100
partialTakePercent        == 50
partialTakeSize           == 50
maxHoldTimeHours          == 24
minHoldTimeMinutes        == 5

Mints == {"A"}

\* Model bounds.
MaxStopDenominator == 20    \* tightenStops is taken while the stop's fraction stays this small
MaxLosses          == 4     \* consecutiveLosses is counted up to here
MaxAbsPnL          == 3     \* |dailyPnL| stays within this many SOL

-----------------------------------------------------------------------------
(* PositionManager: pure parts of evaluatePosition / updateTrailingStop. *)

\* pnlPercent = ((price - entry) / entry) * 100, compared with a percentage.
PnlGE(pos, price, pct) == (price - pos.entryPrice) * 100 >= pct * pos.entryPrice
PnlLE(pos, price, pct) == (price - pos.entryPrice) * 100 <= pct * pos.entryPrice

StopLossHitStrict(pos, price) == (price - pos.entryPrice) * 100 < (-stopLossPercent) * pos.entryPrice

StopLossHit(pos, price) == PnlLE(pos, price, -stopLossPercent)

TrailingStopHit(pos, price) ==
    Truthy(pos.trailingStopPrice) /\ RatLE(RatOfInt(price), pos.trailingStopPrice)

HoldTimeMs(pos, t) == t - pos.entryTimestamp

MaxHoldExceeded(pos, t) == HoldTimeMs(pos, t) >= maxHoldTimeHours * MsPerHour
MinHoldNotMet(pos, t)   == HoldTimeMs(pos, t) < minHoldTimeMinutes * MsPerMinute

\* The rule of evaluatePosition that decides, in the order of the code.
EvalRule(pos, price, t) ==
    IF StopLossHit(pos, price) THEN "stop_loss"
    ELSE IF TrailingStopHit(pos, price) THEN "trailing_stop"
    ELSE IF PnlGE(pos, price, takeProfitPercent) THEN "take_profit"
    ELSE IF ~pos.partialTakeDone /\ PnlGE(pos, price, partialTakePercent) THEN "partial_take"
    ELSE IF MaxHoldExceeded(pos, t) THEN "max_hold"
    ELSE IF MinHoldNotMet(pos, t) THEN "min_hold"
    ELSE "holding"

SignalType(rule) ==
    CASE rule \in {"stop_loss", "trailing_stop", "take_profit", "max_hold"} -> "full_sell"
      [] rule = "partial_take" -> "partial_sell"
      [] OTHER -> "hold"

SignalUrgency(rule) ==
    CASE rule \in {"stop_loss", "trailing_stop"} -> "critical"
      [] rule = "take_profit" -> "high"
      [] rule \in {"partial_take", "max_hold"} -> "medium"
      [] OTHER -> "low"

SignalSellPercent(rule) ==
    CASE SignalType(rule) = "full_sell" -> 100
      [] rule = "partial_take" -> partialTakeSize
      [] OTHER -> 0

EvaluatedPositionNoMark(pos, rule) ==
    CASE rule = "holding" ->
            [pos EXCEPT !.status = IF Truthy(pos.trailingStopPrice) THEN "trailing" ELSE "active"]
      [] OTHER -> pos

\* The position as evaluatePosition leaves it: the partial-take mark, and the
\* status on the default branch.
EvaluatedPosition(pos, rule) ==
    CASE rule = "partial_take" -> [pos EXCEPT !.partialTakeDone = TRUE]
      [] rule = "holding" ->
            [pos EXCEPT !.status = IF Truthy(pos.trailingStopPrice) THEN "trailing" ELSE "active"]
      [] OTHER -> pos

\* evaluatePosition: the signal returned and the position as mutated.
EvaluatePosition(m, pos, price, t) ==
    LET rule == EvalRule(pos, price, t) IN
    [ signal   |-> [ mint        |-> m,
                     type        |-> SignalType(rule),
                     urgency     |-> SignalUrgency(rule),
                     reason      |-> rule,
                     sellPercent |-> SignalSellPercent(rule),
                     price       |-> price,
                     holdTimeMs  |-> HoldTimeMs(pos, t) ],
      position |-> EvaluatedPosition(pos, rule) ]

\* highestPrice / lowestPrice tracking, the same code on both price paths.
UpdateHighLow(pos, price) ==
    [pos EXCEPT !.highestPrice = IF price > @ THEN price ELSE @,
                !.lowestPrice  = IF price < @ THEN price ELSE @]

\* newTrailingStop = highestPrice * (1 - trailingStopPercent / 100)
NewTrailingStop(pos) == Rat(pos.highestPrice * (100 - trailingStopPercent), 100)

UpdateTrailingStopNoRaise(pos, price) ==
    IF PnlGE(pos, price, trailingActivationPercent) /\ ~Truthy(pos.trailingStopPrice)
    THEN [pos EXCEPT !.trailingStopPrice = NewTrailingStop(pos), !.status = "trailing"]
    ELSE pos

\* updateTrailingStop
UpdateTrailingStop(pos, price) ==
    IF PnlGE(pos, price, trailingActivationPercent)
       /\ ( ~Truthy(pos.trailingStopPrice)
            \/ RatLT(pos.trailingStopPrice, NewTrailingStop(pos)) )
    THEN [pos EXCEPT !.trailingStopPrice = NewTrailingStop(pos), !.status = "trailing"]
    ELSE pos

\* One iteration of the loop of checkAllPositions once the price is known:
\* evaluate, then track high/low, then (polled price only) the trailing stop.
CheckOne(m, pos, price, polled, t) ==
    LET ev == EvaluatePosition(m, pos, price, t)
        hl == UpdateHighLow(ev.position, price)
    IN [ signal   |-> ev.signal,
         position |-> IF polled THEN UpdateTrailingStop(hl, price) ELSE hl ]


-----------------------------------------------------------------------------
(* PositionManager: state and handlers. *)

EmptyMap == [m \in {} |-> 0]

MapPut(f, k, v) == [x \in DOMAIN f \cup {k} |-> IF x = k THEN v ELSE f[x]]
MapDel(f, k)    == [x \in DOMAIN f \ {k} |-> f[x]]

SeqDel(s, k) == SelectSeq(s, LAMBDA x : x # k)

Op(name, args) == [op |-> name, args |-> args]

IdleTick == [pc |-> "idle", mint |-> <<>>, visited |-> {}, detached |-> <<>>]

\* addPosition: the EnhancedPosition built from a stored Position.
Enhanced(entryPrice, entryTimestamp) ==
    [ entryPrice        |-> entryPrice,
      entryTimestamp    |-> entryTimestamp,
      highestPrice      |-> entryPrice,
      lowestPrice       |-> entryPrice,
      trailingStopPrice |-> <<>>,
      partialTakeDone   |-> FALSE,
      status            |-> "active" ]

\* The next entry the Map iterator of checkAllPositions yields: the first
\* key, in insertion order, that the running loop has not visited.
NextMint(ord, visited) ==
    LET rest == SelectSeq(ord, LAMBDA x : x \notin visited)
    IN IF rest = <<>> THEN <<>> ELSE <<Head(rest)>>

CountPartial(pex, sig) ==
    IF sig.type = "partial_sell" /\ sig.mint \in DOMAIN pex
    THEN [pex EXCEPT ![sig.mint] = @ + 1]
    ELSE pex

\* The loop of checkAllPositions from its current entry up to its next await
\* (a position without a cached stream price: the polled query) or its return.
RECURSIVE RunLoop(_, _, _, _)
RunLoop(pos, visited, sigs, pex) ==
    LET nxt == NextMint(order, visited) IN
    IF nxt = <<>>
    THEN [positions |-> pos, tick |-> IdleTick, signals |-> sigs, partialExits |-> pex]
    ELSE LET m == nxt[1] IN
         IF m \in DOMAIN streamPrices /\ streamPrices[m] # 0
         THEN LET r == CheckOne(m, pos[m], streamPrices[m], FALSE, now)
              IN RunLoop([pos EXCEPT ![m] = r.position], visited \cup {m},
                         Append(sigs, r.signal), CountPartial(pex, r.signal))
         ELSE [ positions    |-> pos,
                tick         |-> [pc |-> "await", mint |-> <<m>>,
                                  visited |-> visited \cup {m}, detached |-> <<>>],
                signals      |-> sigs,
                partialExits |-> pex ]

\* addPosition, as the agent calls it after a buy (tick step 2, after
\* managePositions has returned): the strategy proposes no asset that is held.
AddPosition(m, entryPrice) ==
    /\ tick.pc = "idle"
    /\ m \notin DOMAIN positions
    /\ positions' = MapPut(positions, m, Enhanced(entryPrice, now))
    /\ order' = Append(order, m)
    /\ partialExits' = MapPut(partialExits, m, 0)
    /\ urgent' = <<>>
    /\ started' = <<>>
    /\ lastOp' = Op("addPosition", <<m, entryPrice>>)
    /\ UNCHANGED <<now, streamPrices, tick, signals, riskVars, extVars>>

\* checkAllPositions up to its first await or its return: what it does to
\* the ledger.
CheckAllPositionsRuns ==
    /\ tick.pc = "idle"
    /\ LET r == RunLoop(positions, {}, <<>>, partialExits) IN
        /\ positions' = r.positions
        /\ tick' = r.tick
        /\ signals' = r.signals
        /\ partialExits' = r.partialExits
    /\ urgent' = <<>>
    /\ started' = <<>>
    /\ lastOp' = Op("checkAllPositions", <<>>)
    /\ UNCHANGED <<now, order, streamPrices, riskVars>>

\* checkAllPositions, called outside a tick.
CheckAllPositions == CheckAllPositionsRuns /\ UNCHANGED extVars

\* The polled query of checkAllPositions returns: price 0 stands for no
\* TokenInfo.  The loop goes on with the position object it holds, which is
\* the Map's entry unless the position was removed during the await.
PollReturn(price) ==
    /\ tick.pc = "await"
    /\ LET m   == tick.mint[1]
           obj == IF tick.detached # <<>> THEN tick.detached[1] ELSE positions[m]
           r   == CheckOne(m, obj, price, TRUE, now)
           got == price # 0
           pos1 == IF got /\ tick.detached = <<>>
                   THEN [positions EXCEPT ![m] = r.position] ELSE positions
           sig1 == IF got THEN Append(signals, r.signal) ELSE signals
           pex1 == IF got /\ tick.detached = <<>>
                   THEN CountPartial(partialExits, r.signal) ELSE partialExits
           rest == RunLoop(pos1, tick.visited, sig1, pex1)
       IN /\ positions' = rest.positions
          /\ tick' = rest.tick
          /\ signals' = rest.signals
          /\ partialExits' = rest.partialExits
          /\ lastOp' = Op("pollReturn", <<m, price>>)
    /\ urgent' = <<>>
    /\ started' = <<>>
    /\ UNCHANGED <<now, order, streamPrices, riskVars, extVars>>

UpdateTrailingStopDeactivating(pos, price) ==
    IF PnlGE(pos, price, trailingActivationPercent)
    THEN IF ~Truthy(pos.trailingStopPrice) \/ RatLT(pos.trailingStopPrice, NewTrailingStop(pos))
         THEN [pos EXCEPT !.trailingStopPrice = NewTrailingStop(pos), !.status = "trailing"]
         ELSE pos
    ELSE [pos EXCEPT !.trailingStopPrice = <<>>, !.status = "active"]

\* updateTrailingStopFromStream
UpdateTrailingStopFromStream(pos, price) ==
    IF PnlGE(pos, price, trailingActivationPercent)
       /\ ( ~Truthy(pos.trailingStopPrice)
            \/ RatLT(pos.trailingStopPrice, NewTrailingStop(pos)) )
    THEN [pos EXCEPT !.trailingStopPrice = NewTrailingStop(pos), !.status = "trailing"]
    ELSE pos

UrgentExitsStopLossOnly(m, pos, price) ==
    IF StopLossHit(pos, price)
    THEN << [mint |-> m, reason |-> "stop_loss", price |-> price] >> ELSE <<>>

\* The agent's urgent_exit listener: executeSell(data.position, 100), which
\* runs up to its first await inside emit().
UrgentExitHandler(ev) == [mint |-> ev.mint, sellPercent |-> 100]

\* The urgent_exit events of handlePriceUpdate, in the order emitted.
UrgentExits(m, pos, price) ==
    (IF StopLossHit(pos, price)
     THEN << [mint |-> m, reason |-> "stop_loss", price |-> price] >> ELSE <<>>)
    \o
    (IF TrailingStopHit(pos, price)
     THEN << [mint |-> m, reason |-> "trailing_stop", price |-> price] >> ELSE <<>>)

\* A live stream price event: the per-asset callback registered by
\* addPosition, then the 'price' listener handlePriceUpdate.
HandlePriceUpdate(m, price) ==
    /\ m \in DOMAIN positions
    /\ LET pos == UpdateTrailingStopFromStream(UpdateHighLow(positions[m], price), price)
       IN /\ positions' = [positions EXCEPT ![m] = pos]
          /\ urgent' = UrgentExits(m, pos, price)
          /\ started' = [i \in DOMAIN UrgentExits(m, pos, price) |->
                            UrgentExitHandler(UrgentExits(m, pos, price)[i])]
    /\ streamPrices' = MapPut(streamPrices, m, price)
    /\ lastOp' = Op("handlePriceUpdate", <<m, price>>)
    /\ UNCHANGED <<now, order, tick, signals, partialExits, riskVars, extVars>>

EmergencyExitSignalsTrailingOnly(pos, ord) ==
    LET held == SelectSeq(ord, LAMBDA m : Truthy(pos[m].trailingStopPrice))
    IN [i \in 1..Len(held) |->
          [mint |-> held[i], type |-> "full_sell", urgency |-> "critical",
           reason |-> "emergency", sellPercent |-> 100]]

\* Array.from(this.positions.values()).map(...): one signal per position, in
\* the Map's iteration order.
EmergencyExitSignals(pos, ord) ==
    [i \in 1..Len(ord) |->
        [mint |-> ord[i], type |-> "full_sell", urgency |-> "critical",
         reason |-> "emergency", sellPercent |-> 100]]

\* getEmergencyExitSignals(): the array returned is the operation's argument
\* in lastOp.
GetEmergencyExitSignals ==
    /\ urgent' = <<>>
    /\ started' = <<>>
    /\ lastOp' = Op("getEmergencyExitSignals", <<EmergencyExitSignals(positions, order)>>)
    /\ UNCHANGED <<now, positions, order, streamPrices, tick, signals, partialExits,
                   riskVars, extVars>>

\* removePosition
RemovePosition(m) ==
    /\ m \in DOMAIN positions
    /\ positions' = MapDel(positions, m)
    /\ order' = SeqDel(order, m)
    /\ streamPrices' = MapDel(streamPrices, m)
    /\ partialExits' = MapDel(partialExits, m)
    /\ tick' = IF tick.pc = "await" /\ tick.mint = <<m>> /\ tick.detached = <<>>
               THEN [tick EXCEPT !.detached = <<positions[m]>>]
               ELSE [tick EXCEPT !.visited = @ \ {m}]
    /\ urgent' = <<>>
    /\ started' = <<>>
    /\ lastOp' = Op("removePosition", <<m>>)
    /\ UNCHANGED <<now, signals, riskVars, extVars>>

\* entryPrice + (currentStop - entryPrice) * multiplier, multiplier = <<n, d>>
TightenedStop(pos, mult) ==
    LET stop == pos.trailingStopPrice
        gapN == stop[1] - pos.entryPrice * stop[2]      \* gap = gapN / stop[2]
    IN Rat(pos.entryPrice * stop[2] * mult[2] + gapN * mult[1], stop[2] * mult[2])

TightenPosition(pos, mult) ==
    IF Truthy(pos.trailingStopPrice)
    THEN [pos EXCEPT !.trailingStopPrice = TightenedStop(pos, mult)]
    ELSE pos

\* tightenStops(multiplier)
TightenStops(mult) ==
    /\ \A m \in DOMAIN positions :
          TightenPosition(positions[m], mult).trailingStopPrice # <<>>
             => TightenPosition(positions[m], mult).trailingStopPrice[2] <= MaxStopDenominator
    /\ positions' = [m \in DOMAIN positions |-> TightenPosition(positions[m], mult)]
    /\ urgent' = <<>>
    /\ started' = <<>>
    /\ lastOp' = Op("tightenStops", <<mult>>)
    /\ UNCHANGED <<now, order, streamPrices, tick, signals, partialExits, riskVars, extVars>>

\* The clock moves to a later instant.
AdvanceTime(t) ==
    /\ t > now
    /\ now' = t
    /\ urgent' = <<>>
    /\ started' = <<>>
    /\ lastOp' = Op("advanceTime", <<t>>)
    /\ UNCHANGED <<positions, order, streamPrices, tick, signals, partialExits, riskVars, extVars>>


-----------------------------------------------------------------------------
(* RiskManager.  Amounts are whole SOL. *)

initialCapitalSol        == 20
maxDrawdownPercent       == 25
maxExposurePercent       == 60
maxSinglePositionPercent == 20
cooldownAfterLossesMs    == 30 * 60 * 1000
maxConsecutiveLosses     == 3
minTimeBetweenTradesMs   == 60 * 1000

\* loadState
InitialRiskState ==
    [ dailyPnL           |-> 0,
      peakBalance        |-> initialCapitalSol,
      currentDrawdown    |-> <<0, 1>>,
      consecutiveLosses  |-> 0,
      lastTradeTimestamp |-> <<>>,
      cooldownUntil      |-> <<>> ]

NoOut ==
    [query |-> "none", canTrade |-> FALSE, reason |-> "", severity |-> "", mode |-> "",
     size |-> <<>>]

\* getTodayString: the UTC date of Date.now(), as a day number.
TodayString(t) == t \div MsPerDay

\* checkDailyReset: the state it leaves.
CheckDailyReset(r, t) ==
    IF TodayString(t) # dailyResetDate THEN [r EXCEPT !.dailyPnL = 0] ELSE r

\* calculateDrawdown, in percent, as a fraction.
CalculateDrawdown(r, balance) ==
    IF r.peakBalance = 0 THEN <<0, 1>>
    ELSE Rat((r.peakBalance - balance) * 100, r.peakBalance)

CooldownActiveInclusive(r, t) == r.cooldownUntil # <<>> /\ t <= r.cooldownUntil[1]

\* state.cooldownUntil && new Date() < state.cooldownUntil
CooldownActive(r, t) == r.cooldownUntil # <<>> /\ t < r.cooldownUntil[1]

\* dailyPnL <= -maxDailyLossSol, maxDailyLossSol = initialCapitalSol * 0.1
DailyLossLimitHit(r) == r.dailyPnL * 10 <= -initialCapitalSol

\* dailyPnL <= -maxDailyLossSol * 0.7
ApproachingDailyLoss(r) == r.dailyPnL * 100 <= -(initialCapitalSol * 7)

RateLimited(r, t) ==
    r.lastTradeTimestamp # <<>> /\ t - r.lastTradeTimestamp[1] < minTimeBetweenTradesMs

Check(canTrade, reason, severity) ==
    [query |-> "canOpenPosition", canTrade |-> canTrade, reason |-> reason,
     severity |-> severity, mode |-> "", size |-> <<>>]

\* canOpenPosition after its checkDailyReset: the checks in the order of the code.
\* exposure is the sum of entrySolValue over the stored positions.
CanOpenResult(r, t, solAmount, balance, exposure) ==
    IF CooldownActive(r, t) THEN Check(FALSE, "cooldown", "blocked")
    ELSE IF DailyLossLimitHit(r) THEN Check(FALSE, "daily_loss", "blocked")
    ELSE IF RatLE(RatOfInt(maxDrawdownPercent), CalculateDrawdown(r, balance))
         THEN Check(FALSE, "drawdown", "blocked")
    ELSE IF exposure * 100 >= maxExposurePercent * balance
         THEN Check(FALSE, "exposure", "blocked")
    ELSE IF solAmount * 100 > maxSinglePositionPercent * balance
         THEN Check(FALSE, "position_size", "blocked")
    ELSE IF RateLimited(r, t) THEN Check(FALSE, "rate_limit", "warning")
    ELSE IF ApproachingDailyLoss(r) THEN Check(TRUE, "approaching_daily_loss", "warning")
    ELSE Check(TRUE, "ok", "ok")

\* canOpenPosition(solAmount, currentBalance)
CanOpenPosition(solAmount, balance, exposure) ==
    /\ risk' = CheckDailyReset(risk, now)
    /\ dailyResetDate' = TodayString(now)
    /\ riskOut' = CanOpenResult(risk', now, solAmount, balance, exposure)
    /\ lastOp' = Op("canOpenPosition", <<solAmount, balance, exposure>>)
    /\ UNCHANGED <<now, posVars, extVars>>

LossesAfterTradeDecay(r, profit) ==
    IF profit < 0 THEN r.consecutiveLosses + 1
    ELSE IF r.consecutiveLosses > 0 THEN r.consecutiveLosses - 1 ELSE 0

\* consecutiveLosses after a sell with a profit
LossesAfterTrade(r, profit) ==
    IF profit < 0 THEN r.consecutiveLosses + 1 ELSE 0

\* recordTradeResult after its checkDailyReset; profit <<>> is undefined.
RecordedTrade(r, t, type, profit) ==
    LET sold == IF type = "sell" /\ profit # <<>>
                THEN LET n == LossesAfterTrade(r, profit[1]) IN
                     [r EXCEPT !.dailyPnL = @ + profit[1],
                               !.consecutiveLosses = n,
                               !.cooldownUntil =
                                    IF profit[1] < 0 /\ n >= maxConsecutiveLosses
                                    THEN <<t + cooldownAfterLossesMs>> ELSE @]
                ELSE r
    IN [sold EXCEPT !.lastTradeTimestamp = <<t>>]

\* recordTradeResult(trade)
RecordTradeResult(type, profit) ==
    /\ LET r == RecordedTrade(CheckDailyReset(risk, now), now, type, profit) IN
        /\ r.consecutiveLosses <= MaxLosses
        /\ r.dailyPnL <= MaxAbsPnL /\ r.dailyPnL >= -MaxAbsPnL
        /\ risk' = r
    /\ dailyResetDate' = TodayString(now)
    /\ riskOut' = [NoOut EXCEPT !.query = "recordTradeResult"]
    /\ lastOp' = Op("recordTradeResult", <<type, profit>>)
    /\ UNCHANGED <<now, posVars, extVars>>

\* updatePeakBalance: the state it leaves
PeakBalanceUpdated(rk, balance) ==
    LET r == IF balance > rk.peakBalance
             THEN [rk EXCEPT !.peakBalance = balance] ELSE rk
    IN [r EXCEPT !.currentDrawdown = CalculateDrawdown(r, balance)]

\* updatePeakBalance(currentBalance)
UpdatePeakBalance(balance) ==
    /\ risk' = PeakBalanceUpdated(risk, balance)
    /\ riskOut' = [NoOut EXCEPT !.query = "updatePeakBalance"]
    /\ lastOp' = Op("updatePeakBalance", <<balance>>)
    /\ UNCHANGED <<now, posVars, extVars, dailyResetDate>>

RatMul(a, b) == Rat(a[1] * b[1], a[2] * b[2])
RatMin(a, b) == IF RatLE(a, b) THEN a ELSE b
RatMax(a, b) == IF RatLE(a, b) THEN b ELSE a

\* The floor of calculatePositionSize: 0.01 SOL.
minViableTrade == <<1, 100>>

\* currentBalance * (maxSinglePositionPercent / 100)
MaxSingleSize(balance) == RatMul(balance, <<maxSinglePositionPercent, 100>>)

\* 0.5 + (confidence / 100) * 0.5
ConfidenceMultiplier(confidence) == Rat(100 + confidence, 200)

\* Math.max(0.3, 1 - consecutiveLosses * 0.2)
LossMultiplier(r) == RatMax(<<3, 10>>, Rat(10 - 2 * r.consecutiveLosses, 10))

\* Math.max(0.5, 1 - currentDrawdown / 100)
DrawdownMultiplier(r) ==
    LET dd == r.currentDrawdown
    IN RatMax(<<1, 2>>, Rat(100 * dd[2] - dd[1], 100 * dd[2]))

\* The size before the two clamps.
ScaledSize(r, base, confidence) ==
    LET s1 == RatMul(base, ConfidenceMultiplier(confidence))
        s2 == IF r.consecutiveLosses > 0 THEN RatMul(s1, LossMultiplier(r)) ELSE s1
    IN IF RatLT(<<10, 1>>, r.currentDrawdown) THEN RatMul(s2, DrawdownMultiplier(r)) ELSE s2

\* size = Math.min(size, maxSize); size = Math.max(size, 0.01)
Clamped(size, balance) == RatMax(RatMin(size, MaxSingleSize(balance)), minViableTrade)

\* calculatePositionSize: the size it returns, in SOL, as a fraction.
PositionSize(r, base, balance, confidence) == Clamped(ScaledSize(r, base, confidence), balance)

\* calculatePositionSize(baseAmount, currentBalance, confidence)
CalculatePositionSize(base, balance, confidence) ==
    /\ riskOut' = [NoOut EXCEPT !.query = "calculatePositionSize",
                                !.size = PositionSize(risk, base, balance, confidence)]
    /\ lastOp' = Op("calculatePositionSize", <<base, balance, confidence>>)
    /\ UNCHANGED <<now, posVars, extVars, risk, dailyResetDate>>

\* getSuggestedAction: the mode.
SuggestedActionPauseFirst(r, t) ==
    IF CooldownActive(r, t) THEN "pause"
    ELSE IF DailyLossLimitHit(r) THEN "stop"
    ELSE IF r.consecutiveLosses >= 2 \/ RatLT(<<15, 1>>, r.currentDrawdown) THEN "conservative"
    ELSE "normal"

SuggestedAction(r, t) ==
    IF DailyLossLimitHit(r) THEN "stop"
    ELSE IF CooldownActive(r, t) THEN "pause"
    ELSE IF r.consecutiveLosses >= 2 \/ RatLT(<<15, 1>>, r.currentDrawdown) THEN "conservative"
    ELSE "normal"

\* getSuggestedAction()
GetSuggestedAction ==
    /\ riskOut' = [NoOut EXCEPT !.query = "getSuggestedAction",
                                !.mode = SuggestedAction(risk, now)]
    /\ lastOp' = Op("getSuggestedAction", <<>>)
    /\ UNCHANGED <<now, posVars, extVars, risk, dailyResetDate>>

\* clearCooldown()
ClearCooldown ==
    /\ risk' = [risk EXCEPT !.cooldownUntil = <<>>, !.consecutiveLosses = 0]
    /\ riskOut' = [NoOut EXCEPT !.query = "clearCooldown"]
    /\ lastOp' = Op("clearCooldown", <<>>)
    /\ UNCHANGED <<now, posVars, extVars, dailyResetDate>>

-----------------------------------------------------------------------------
(* SurvivalManager (src/bot/src/core/survivalManager.ts). Capital in SOL,   *)
(* the reserve in tokens.                                                   *)

LOW_CAPITAL_PERCENT      == 25
CRITICAL_CAPITAL_PERCENT == 10
EMERGENCY_SELL_PERCENT   == 20
PARTIAL_SELL_PERCENT     == 10
PROFIT_TO_BUY_PERCENT    == 30

\* handleProfit counts profit and purchases in units of 0.0001 SOL; the
\* smallest purchase it executes is 0.01 SOL.
minBuyAmount == 100
MaxTokenBought == 900

\* Model bound: survival sells begun in one run.
MaxSurvivalSells == 3

\* loadState with nothing stored: DEFAULT_STATE
InitialSurvivalState ==
    [ tokenLaunched     |-> FALSE,
      tokenBalance      |-> 0,
      capitalSOL        |-> 0,
      totalTokenSold    |-> 0,
      totalTokenBought  |-> 0,
      survivalSellCount |-> 0,
      status            |-> "healthy" ]

IdleSell == [pc |-> "idle", percent |-> 0, before |-> 0]
NoDecision == [action |-> "", amount |-> 0, status |-> ""]

\* capitalSOL >= initialCapitalSol * (pct / 100) * times
CapitalAtLeast(capital, pct, times) == capital * 100 >= initialCapitalSol * pct * times

DetermineStatusStrict(capital) ==
    IF CapitalAtLeast(capital, LOW_CAPITAL_PERCENT, 2) THEN "healthy"
    ELSE IF CapitalAtLeast(capital, LOW_CAPITAL_PERCENT, 1) THEN "low"
    ELSE IF capital * 100 > initialCapitalSol * CRITICAL_CAPITAL_PERCENT THEN "critical"
    ELSE "emergency"

\* determineStatus
DetermineStatus(capital) ==
    IF CapitalAtLeast(capital, LOW_CAPITAL_PERCENT, 2) THEN "healthy"
    ELSE IF CapitalAtLeast(capital, LOW_CAPITAL_PERCENT, 1) THEN "low"
    ELSE IF CapitalAtLeast(capital, CRITICAL_CAPITAL_PERCENT, 1) THEN "critical"
    ELSE "emergency"

\* makeSurvivalDecision
MakeSurvivalDecision(sv) ==
    IF sv.status = "emergency" /\ sv.tokenBalance > 0
    THEN [action |-> "sell_token_emergency", amount |-> EMERGENCY_SELL_PERCENT, status |-> sv.status]
    ELSE IF sv.status = "critical" /\ sv.tokenBalance > 0
    THEN [action |-> "sell_token_partial", amount |-> PARTIAL_SELL_PERCENT, status |-> sv.status]
    ELSE [action |-> "none", amount |-> 0, status |-> sv.status]

\* updateTokenBalance: 0 without a mint; the wallet's answer tb; the old value
\* when the wallet query throws (tb = <<>>).
UpdateTokenBalance(sv, tb) ==
    [sv EXCEPT !.tokenBalance = IF ~sv.tokenLaunched THEN 0
                                ELSE IF tb = <<>> THEN sv.tokenBalance
                                ELSE tb[1]]

\* launchToken: refused when already launched; ok is the launch result.
LaunchToken(ok, tb) ==
    /\ survival' = IF survival.tokenLaunched \/ ~ok THEN survival
                   ELSE UpdateTokenBalance([survival EXCEPT !.tokenLaunched = TRUE], tb)
    /\ lastOp' = Op("launchToken", <<ok, tb>>)
    /\ UNCHANGED <<now, tradeVars, posVars, riskVars, sell, survOut, feedVars, agent>>

\* checkSurvival
CheckSurvival(balance, tb) ==
    /\ LET upd == UpdateTokenBalance([survival EXCEPT !.capitalSOL = balance], tb)
           sv  == [upd EXCEPT !.status = DetermineStatus(balance)]
       IN /\ survival' = sv
          /\ survOut' = MakeSurvivalDecision(sv)
    /\ lastOp' = Op("checkSurvival", <<balance, tb>>)
    /\ UNCHANGED <<now, tradeVars, posVars, riskVars, sell, feedVars, agent>>

\* profitSOL * (PROFIT_TO_BUY_PERCENT / 100)
BuyAmount(profit) == (profit * PROFIT_TO_BUY_PERCENT) \div 100

\* handleProfit: the state it leaves.
HandledProfit(sv, profit, ok, tb) ==
    IF profit <= 0 \/ ~sv.tokenLaunched \/ BuyAmount(profit) < minBuyAmount \/ ~ok
    THEN sv
    ELSE UpdateTokenBalance([sv EXCEPT !.totalTokenBought = @ + BuyAmount(profit)], tb)

\* handleProfit(profitSOL): ok is the result of the purchase, tb the wallet's
\* answer to updateTokenBalance.
HandleProfit(profit, ok, tb) ==
    /\ survival.totalTokenBought + BuyAmount(profit) <= MaxTokenBought
    /\ survival' = HandledProfit(survival, profit, ok, tb)
    /\ lastOp' = Op("handleProfit", <<profit, ok, tb>>)
    /\ UNCHANGED <<now, tradeVars, posVars, riskVars, sell, survOut, feedVars, agent>>

\* sellForSurvival up to its first await: refused without a token or a
\* balance; otherwise the counter is bumped and the sale is requested.
SellForSurvival(percent) ==
    /\ sell.pc = "idle"
    /\ survival.survivalSellCount < MaxSurvivalSells
    /\ IF ~survival.tokenLaunched \/ survival.tokenBalance = 0
       THEN /\ lastOp' = Op("sellForSurvival", <<percent, "refused">>)
            /\ UNCHANGED <<survival, sell>>
       ELSE /\ survival' = [survival EXCEPT !.survivalSellCount = @ + 1]
            /\ sell' = [pc |-> "await", percent |-> percent,
                        before |-> survival.survivalSellCount]
            /\ lastOp' = Op("sellForSurvival", <<percent, "requested">>)
    /\ UNCHANGED <<now, tradeVars, posVars, riskVars, survOut, feedVars, agent>>

\* sellForSurvival after the sale returned: result.success is ok.
SellReturns(ok, tb) ==
    /\ sell.pc = "await"
    /\ survival' =
         IF ok
         THEN UpdateTokenBalance(
                [survival EXCEPT !.totalTokenSold =
                                    @ + (survival.tokenBalance * sell.percent) \div 100], tb)
         ELSE survival
    /\ sell' = IdleSell
    /\ lastOp' = Op("sellReturns", <<ok, tb>>)
    /\ UNCHANGED <<now, tradeVars, posVars, riskVars, survOut, feedVars, agent>>

-----------------------------------------------------------------------------
(* PriceStreamService (src/unnamed/part_002, 471-831).  A socket is          *)
(* connecting, open, failed (its 'error' was emitted, its 'close' is still   *)
(* to come), closing (close() was called) or closed.  Each socket carries    *)
(* the promise of the connectBirdeye call that created it.                   *)

maxReconnectAttempts == 5
reconnectDelay       == 5000
connectTimeoutMs     == 10000
heartbeatIntervalMs  == 30000
heartbeatTimeoutMs   == 60000
birdeyeApiKey        == TRUE

\* Model bound: sockets created in one run.
MaxSockets == 2

InitialFeed ==
    [ isConnected       |-> FALSE,
      reconnectAttempts |-> 0,
      heartbeatDue      |-> <<>>,
      lastPong          |-> 0,
      ws                |-> <<>>,
      subscribedTokens  |-> {},
      latestPrices      |-> <<>>,
      notified          |-> <<>> ]

\* The feed's state as one value, with the events of the running handler.
FeedState == [feed |-> feed, socks |-> socks, timers |-> timers, ev |-> <<>>]

FeedBecomes(F) ==
    /\ feed' = F.feed
    /\ socks' = F.socks
    /\ timers' = F.timers
    /\ feedEvents' = F.ev

NewSocket(t) ==
    [state |-> "connecting", promise |-> "pending", created |-> t, unacked |-> FALSE,
     requests |-> {}]

\* sendSubscribe(token): on birdeyeWs, only when it is open.  requests are the
\* assets a socket was asked to stream.
SendSubscribe(F, tokens) ==
    IF F.feed.ws # <<>> /\ F.socks[F.feed.ws[1]].state = "open"
    THEN [F EXCEPT !.socks[F.feed.ws[1]].requests = @ \cup tokens]
    ELSE F

\* sendUnsubscribe(token)
SendUnsubscribe(F, tokens) ==
    IF F.feed.ws # <<>> /\ F.socks[F.feed.ws[1]].state = "open"
    THEN [F EXCEPT !.socks[F.feed.ws[1]].requests = @ \ tokens]
    ELSE F

\* scheduleReconnect
ScheduleReconnect(F, t) ==
    IF F.feed.reconnectAttempts >= maxReconnectAttempts
    THEN [F EXCEPT !.ev = Append(@, "reconnect_failed")]
    ELSE LET k == F.feed.reconnectAttempts + 1
         IN [F EXCEPT !.feed.reconnectAttempts = k,
                      !.timers = @ \cup {[due |-> t + reconnectDelay * k, attempt |-> k]}]

\* connect() up to its await: a new socket unless connected or without a key.
ConnectCall(F, t) ==
    IF F.feed.isConnected \/ ~birdeyeApiKey THEN F
    ELSE [F EXCEPT !.socks = Append(@, NewSocket(t)),
                   !.feed.ws = <<Len(F.socks) + 1>>,
                   !.ev = Append(@, "attempt")]

\* Whether connect() would create a socket, and there is room for it.
ConnectFits(F) == F.feed.isConnected \/ ~birdeyeApiKey \/ Len(F.socks) < MaxSockets

\* disconnect()
DisconnectCall(F) ==
    LET G == [F EXCEPT !.feed.heartbeatDue = <<>>, !.feed.isConnected = FALSE, !.feed.ws = <<>>]
    IN IF F.feed.ws = <<>> THEN G
       ELSE LET s == F.feed.ws[1]
            IN IF F.socks[s].state \in {"connecting", "open"}
               THEN [G EXCEPT !.socks[s].state = "closing"]
               ELSE G

\* connect(), called by the feed's owner
Connect ==
    /\ ConnectFits(FeedState)
    /\ FeedBecomes(ConnectCall(FeedState, now))
    /\ shutdown' = FALSE
    /\ lastOp' = Op("connect", <<>>)
    /\ UNCHANGED <<now, tradeVars, posVars, riskVars, survVars, agent>>

\* disconnect(), called by the feed's owner
Disconnect ==
    /\ FeedBecomes(DisconnectCall(FeedState))
    /\ shutdown' = TRUE
    /\ lastOp' = Op("disconnect", <<>>)
    /\ UNCHANGED <<now, tradeVars, posVars, riskVars, survVars, agent>>

\* 'open' on socket s: sendSubscribe for every subscribed token, then
\* resolves its promise if still pending, and connect() continues:
\* startHeartbeat, isConnected, reconnectAttempts = 0, 'connected'.
SocketOpen(s) ==
    /\ s \in DOMAIN socks
    /\ socks[s].state = "connecting"
    /\ LET F == SendSubscribe([FeedState EXCEPT !.socks[s].state = "open"],
                              feed.subscribedTokens)
       IN FeedBecomes(
            IF socks[s].promise = "pending"
            THEN [F EXCEPT !.socks[s].promise = "resolved",
                           !.feed.heartbeatDue = <<now + heartbeatIntervalMs>>,
                           !.feed.isConnected = TRUE,
                           !.feed.reconnectAttempts = 0,
                           !.ev = <<"connected">>]
            ELSE F)
    /\ lastOp' = Op("socketOpen", <<s>>)
    /\ UNCHANGED <<now, tradeVars, posVars, riskVars, survVars, shutdown, agent>>

\* 'error' on a connecting socket: rejects its promise if still pending, and
\* connect() catches: scheduleReconnect.  The socket's 'close' follows.
SocketError(s) ==
    /\ s \in DOMAIN socks
    /\ socks[s].state = "connecting"
    /\ LET F == [FeedState EXCEPT !.socks[s].state = "failed"]
       IN FeedBecomes(
            IF socks[s].promise = "pending"
            THEN ScheduleReconnect([F EXCEPT !.socks[s].promise = "rejected"], now)
            ELSE F)
    /\ lastOp' = Op("socketError", <<s>>)
    /\ UNCHANGED <<now, tradeVars, posVars, riskVars, survVars, shutdown, agent>>

\* 'close' on socket s: after its error, after close(), or an open
\* connection lost.
SocketClosed(s) ==
    /\ s \in DOMAIN socks
    /\ socks[s].state \in {"failed", "closing", "open"}
    /\ FeedBecomes(
         ScheduleReconnect(
           [FeedState EXCEPT !.socks[s].state = "closed",
                             !.feed.isConnected = FALSE,
                             !.ev = <<"disconnected">>], now))
    /\ lastOp' = Op("socketClosed", <<s, socks[s].state>>)
    /\ UNCHANGED <<now, tradeVars, posVars, riskVars, survVars, shutdown, agent>>

\* The 10 s timer of connectBirdeye: rejects a promise still pending.
ConnectTimeout(s) ==
    /\ s \in DOMAIN socks
    /\ socks[s].promise = "pending"
    /\ now >= socks[s].created + connectTimeoutMs
    /\ FeedBecomes(ScheduleReconnect([FeedState EXCEPT !.socks[s].promise = "rejected"], now))
    /\ lastOp' = Op("connectTimeout", <<s>>)
    /\ UNCHANGED <<now, tradeVars, posVars, riskVars, survVars, shutdown, agent>>

\* A reconnect timer fires: connect().
ReconnectTimerFires(tm) ==
    /\ tm \in timers
    /\ now >= tm.due
    /\ ConnectFits(FeedState)
    /\ FeedBecomes(ConnectCall([FeedState EXCEPT !.timers = @ \ {tm}], now))
    /\ lastOp' = Op("reconnectTimer", <<tm.attempt>>)
    /\ UNCHANGED <<now, tradeVars, posVars, riskVars, survVars, shutdown, agent>>

PongStaleInclusive(f, t) == t - f.lastPong >= heartbeatTimeoutMs

\* Date.now() - this.lastPong > 60000
PongStale(f, t) == t - f.lastPong > heartbeatTimeoutMs

\* The heartbeat interval fires.
HeartbeatTick ==
    /\ feed.heartbeatDue # <<>>
    /\ now >= feed.heartbeatDue[1]
    /\ LET F == [FeedState EXCEPT !.feed.heartbeatDue = <<now + heartbeatIntervalMs>>]
       IN IF feed.ws # <<>> /\ socks[feed.ws[1]].state = "open"
          THEN IF PongStale(feed, now)
               THEN /\ Len(socks) < MaxSockets
                    /\ FeedBecomes(ConnectCall(DisconnectCall(
                           [F EXCEPT !.ev = <<"ping">>, !.socks[feed.ws[1]].unacked = TRUE]), now))
               ELSE FeedBecomes([F EXCEPT !.ev = <<"ping">>, !.socks[feed.ws[1]].unacked = TRUE])
          ELSE FeedBecomes(F)
    /\ lastOp' = Op("heartbeat", <<>>)
    /\ UNCHANGED <<now, tradeVars, posVars, riskVars, survVars, shutdown, agent>>

\* subscribe(tokenAddress)
Subscribe(m) ==
    /\ LET F == [FeedState EXCEPT !.feed.subscribedTokens = @ \cup {m}]
       IN FeedBecomes(IF feed.isConnected THEN SendSubscribe(F, {m}) ELSE F)
    /\ lastOp' = Op("subscribe", <<m>>)
    /\ UNCHANGED <<now, tradeVars, posVars, riskVars, survVars, shutdown, agent>>

\* unsubscribe(tokenAddress)
Unsubscribe(m) ==
    /\ LET F == [FeedState EXCEPT !.feed.subscribedTokens = @ \ {m}]
       IN FeedBecomes(IF feed.isConnected THEN SendUnsubscribe(F, {m}) ELSE F)
    /\ lastOp' = Op("unsubscribe", <<m>>)
    /\ UNCHANGED <<now, tradeVars, posVars, riskVars, survVars, shutdown, agent>>

\* The per-asset price callbacks (priceCallbacks) and the listeners of the
\* 'price' event, in the order registered.
PriceCallbacks == <<"callback1", "callback2">>
PriceObservers == <<"observer1", "observer2">>

\* for (const callback of callbacks) try { callback(update) } catch: every
\* callback is invoked, whichever throw.
CallbacksInvoked(callbacks, faulty) == callbacks

\* EventEmitter.emit('price', update): the listeners are called in order and
\* the first exception leaves emit, so the listeners after it are not called.
RECURSIVE ObserversInvoked(_, _)
ObserversInvoked(observers, faulty) ==
    IF observers = <<>> THEN <<>>
    ELSE IF Head(observers) \in faulty THEN <<Head(observers)>>
    ELSE <<Head(observers)>> \o ObserversInvoked(Tail(observers), faulty)

\* handleBirdeyeMessage with a PRICE_DATA message on open socket s, the
\* listeners in faulty throwing: handlePriceUpdate caches the price and fans
\* it out; an exception that leaves it is caught and logged.
PriceData(s, m, price, faulty) ==
    /\ s \in DOMAIN socks
    /\ socks[s].state = "open"
    /\ FeedBecomes([FeedState EXCEPT
          !.feed.latestPrices = MapPut(@, m, price),
          !.feed.notified = CallbacksInvoked(PriceCallbacks, faulty)
                               \o ObserversInvoked(PriceObservers, faulty)])
    /\ lastOp' = Op("priceData", <<m, price, faulty>>)
    /\ UNCHANGED <<now, tradeVars, posVars, riskVars, survVars, shutdown, agent>>

\* A PRICE_DATA message on open socket s: PriceStreamService.handlePriceUpdate
\* runs the per-asset callbacks and emits 'price' to the position ledger.
StreamMessage(s, m, price) ==
    /\ s \in DOMAIN socks
    /\ socks[s].state = "open"
    /\ HandlePriceUpdate(m, price)

\* 'pong' on an open socket
Pong(s) ==
    /\ s \in DOMAIN socks
    /\ socks[s].state = "open"
    /\ FeedBecomes([FeedState EXCEPT !.feed.lastPong = now, !.socks[s].unacked = FALSE])
    /\ lastOp' = Op("pong", <<s>>)
    /\ UNCHANGED <<now, tradeVars, posVars, riskVars, survVars, shutdown, agent>>

-----------------------------------------------------------------------------
(* SurviveAgent start / stop / runLoop (src/unnamed/part_009, 96-189).  A    *)
(* tick's own work is the other managers' operations; here a tick only      *)
(* begins and completes.                                                     *)

\* Model bound: start() calls and runLoop instances alive at once.
MaxLoops == 2

\* The start() calls still waiting, without the i-th.
WithoutStart(q, i) == [j \in 1..(Len(q) - 1) |-> IF j < i THEN q[j] ELSE q[j + 1]]

InitialAgent == [isRunning |-> FALSE, starting |-> <<>>, ticking |-> 0, sleeping |-> 0]

\* start() up to `await this.priceStream.connect()`; the call then waits for
\* the promise of the socket connect() created (0: connect() returned at once).
StartAgent ==
    /\ Len(agent.starting) + agent.ticking + agent.sleeping < MaxLoops
    /\ ConnectFits(FeedState)
    /\ LET F == ConnectCall(FeedState, now)
       IN /\ FeedBecomes(F)
          /\ agent' = [agent EXCEPT !.starting =
                         Append(@, IF Len(F.socks) > Len(socks) THEN Len(F.socks) ELSE 0)]
    /\ shutdown' = FALSE
    /\ lastOp' = Op("start", <<>>)
    /\ UNCHANGED <<now, tradeVars, posVars, riskVars, survVars>>

\* start() after connect() returned: updatePeakBalance(balance), isRunning =
\* true, runLoop(), which enters its first tick.
StartResumes(i, balance) ==
    /\ i \in DOMAIN agent.starting
    /\ IF agent.starting[i] = 0 THEN TRUE
       ELSE socks[agent.starting[i]].promise # "pending"
    /\ agent' = [agent EXCEPT !.starting = WithoutStart(@, i),
                              !.isRunning = TRUE,
                              !.ticking = @ + 1]
    /\ risk' = PeakBalanceUpdated(risk, balance)
    /\ feedEvents' = <<>>
    /\ lastOp' = Op("startResumes", <<i>>)
    /\ UNCHANGED <<now, tradeVars, posVars, dailyResetDate, riskOut, survVars, feed, socks, timers, shutdown>>

\* stop()
StopAgent ==
    /\ agent' = [agent EXCEPT !.isRunning = FALSE]
    /\ FeedBecomes(DisconnectCall(FeedState))
    /\ shutdown' = TRUE
    /\ lastOp' = Op("stop", <<>>)
    /\ UNCHANGED <<now, tradeVars, posVars, riskVars, survVars>>

\* runLoop: `await this.tick()` returns; the loop sleeps 30 s.
TickCompletes ==
    /\ agent.ticking > 0
    /\ agent' = [agent EXCEPT !.ticking = @ - 1, !.sleeping = @ + 1]
    /\ feedEvents' = <<>>
    /\ lastOp' = Op("tickCompletes", <<>>)
    /\ UNCHANGED <<now, tradeVars, posVars, riskVars, survVars, feed, socks, timers, shutdown>>

\* runLoop: the sleep ends; while (this.isRunning) decides.
SleepEnds ==
    /\ agent.sleeping > 0
    /\ agent' = IF agent.isRunning
                THEN [agent EXCEPT !.sleeping = @ - 1, !.ticking = @ + 1]
                ELSE [agent EXCEPT !.sleeping = @ - 1]
    /\ feedEvents' = <<>>
    /\ lastOp' = Op("sleepEnds", <<>>)
    /\ UNCHANGED <<now, tradeVars, posVars, riskVars, survVars, feed, socks, timers, shutdown>>

-----------------------------------------------------------------------------
(* Trades: the agent's executeBuy, executePartialSell and executeSell, each  *)
(* from its call to its return, leaving open what the calling tick does     *)
(* next.  Token amounts are whole tokens, SOL values   *)
(* whole SOL; price 1.00 is 100, so value / amount is 100 * value \div amount.*)

MaxHeldAmount == 4

\* One unit of SOL in the units of handleProfit.
SolInProfitUnits == 10000

\* partial: the executePartialSell call that is awaiting, if any.
IdleLoop == [pc |-> "idle", riskMode |-> "", balance |-> 0, i |-> 0, partial |-> <<>>]

\* positions.findIndex(p => p.tokenMint === mint): 0 when absent.
StoreIndex(st, m) ==
    IF \E i \in DOMAIN st : st[i].tokenMint = m
    THEN CHOOSE i \in DOMAIN st : st[i].tokenMint = m /\ \A j \in 1..(i - 1) : st[j].tokenMint # m
    ELSE 0

StoreMints(st) == {st[i].tokenMint : i \in DOMAIN st}

\* storage.getPosition
GetPosition(st, m) == IF StoreIndex(st, m) = 0 THEN <<>> ELSE <<st[StoreIndex(st, m)]>>

\* totalValue / totalAmount, as a price
AveragePrice(totalValue, totalAmount) == (100 * totalValue) \div totalAmount

\* storage.addPosition
StorageAddPosition(st, p) ==
    LET i == StoreIndex(st, p.tokenMint) IN
    IF i # 0
    THEN [st EXCEPT ![i] =
            [@ EXCEPT !.amount = @ + p.amount,
                      !.entrySolValue = @ + p.entrySolValue,
                      !.entryPrice = AveragePrice(st[i].entrySolValue + p.entrySolValue,
                                                  st[i].amount + p.amount)]]
    ELSE Append(st, p)

\* storage.removePosition
StorageRemovePosition(st, m) == SelectSeq(st, LAMBDA p : p.tokenMint # m)

\* positions.reduce((sum, p) => sum + p.entrySolValue, 0)
RECURSIVE CurrentExposure(_)
CurrentExposure(st) ==
    IF st = <<>> THEN 0 ELSE Head(st).entrySolValue + CurrentExposure(Tail(st))

Quantity(p) == [amount |-> p.amount, entrySolValue |-> p.entrySolValue]

\* executeBuy(signal, balance) with adjustedAmount = solAmount: bought is the
\* outcome of strategy.executeBuy (price and amount what it recorded), info
\* whether the agent's getTokenInfo answered.
ExecuteBuy(m, price, amount, solAmount, balance, bought, info) ==
    LET rk    == CheckDailyReset(risk, now)
        check == CanOpenResult(rk, now, solAmount, balance, CurrentExposure(store))
        new   == [tokenMint |-> m, entryPrice |-> price, amount |-> amount,
                  entrySolValue |-> solAmount, entryTimestamp |-> now]
        st    == StorageAddPosition(store, new)
        sp    == GetPosition(st, m)[1]
    IN /\ risk' = rk
       /\ dailyResetDate' = TodayString(now)
       /\ riskOut' = check
       /\ IF check.canTrade /\ bought
          THEN /\ sp.amount <= MaxHeldAmount
               /\ (100 * sp.entrySolValue) % sp.amount = 0
               /\ store' = st
               /\ IF info
                  THEN /\ positions' = MapPut(positions, m,
                                              Enhanced(sp.entryPrice, sp.entryTimestamp))
                       /\ order' = IF m \in DOMAIN positions THEN order ELSE Append(order, m)
                       /\ partialExits' = MapPut(partialExits, m, 0)
                       /\ holdings' = MapPut(holdings, m, Quantity(sp))
                  ELSE UNCHANGED <<positions, order, partialExits, holdings>>
          ELSE UNCHANGED <<store, positions, order, partialExits, holdings>>
       /\ urgent' = <<>>
       /\ started' = <<>>
       /\ lastOp' = Op("executeBuy", <<m, price, amount, solAmount, bought, info, balance>>)
       /\ UNCHANGED <<now, streamPrices, tick, signals, survVars, feedVars, agent>>

\* recordTradeResult of a sell with this profit, then handleProfit: the risk
\* and survival states a completed sell leaves.
SellRecorded(profit) ==
    LET r == RecordedTrade(CheckDailyReset(risk, now), now, "sell", <<profit>>) IN
    /\ r.consecutiveLosses <= MaxLosses
    /\ r.dailyPnL <= MaxAbsPnL /\ r.dailyPnL >= -MaxAbsPnL
    /\ risk' = r
    /\ dailyResetDate' = TodayString(now)
    /\ riskOut' = [NoOut EXCEPT !.query = "recordTradeResult"]
    /\ survival' = HandledProfit(survival, profit * SolInProfitUnits, TRUE, <<>>)

\* recordPartialSell(tokenMint, soldAmount, soldValue) on the ledger's quantities
RecordPartialSell(h, m, soldAmount, soldValue) ==
    IF m \in DOMAIN h
    THEN [h EXCEPT ![m] = [amount        |-> @.amount - soldAmount,
                           entrySolValue |-> @.entrySolValue - soldValue]]
    ELSE h

\* executePartialSell(position, sellPercent) on a position of the ledger:
\* info is whether getTokenInfo answered, ok the swap result, received the
\* SOL it returned.
ExecutePartialSell(m, sellPercent, info, ok, received) ==
    /\ m \in DOMAIN positions
    /\ (holdings[m].amount * sellPercent) % 100 = 0
    /\ (holdings[m].entrySolValue * sellPercent) % 100 = 0
    /\ LET soldAmount == (holdings[m].amount * sellPercent) \div 100
           soldValue  == (holdings[m].entrySolValue * sellPercent) \div 100
       IN IF info /\ ok
          THEN /\ SellRecorded(received - soldValue)
               /\ holdings' = RecordPartialSell(holdings, m, soldAmount, soldValue)
          ELSE UNCHANGED <<riskVars, survival, holdings>>
    /\ urgent' = <<>>
    /\ started' = <<>>
    /\ lastOp' = Op("executePartialSell", <<m, sellPercent, info /\ ok, received>>)
    /\ UNCHANGED <<now, positions, order, streamPrices, tick, signals, partialExits,
                   sell, survOut, feedVars, agent, store>>

\* executeSell(position, 100) on a position of the ledger: strategy.executeSell
\* sells the stored amount; info and ok as above.
ExecuteSell(m, info, ok, received) ==
    /\ m \in DOMAIN positions
    /\ IF GetPosition(store, m) # <<>> /\ info /\ ok
       THEN /\ SellRecorded(received - GetPosition(store, m)[1].entrySolValue)
            /\ store' = StorageRemovePosition(store, m)
            /\ positions' = MapDel(positions, m)
            /\ order' = SeqDel(order, m)
            /\ streamPrices' = MapDel(streamPrices, m)
            /\ partialExits' = MapDel(partialExits, m)
            /\ holdings' = MapDel(holdings, m)
       ELSE UNCHANGED <<riskVars, survival, store, positions, order, streamPrices,
                        partialExits, holdings>>
    /\ urgent' = <<>>
    /\ started' = <<>>
    /\ lastOp' = Op("executeSell", <<m, GetPosition(store, m) # <<>> /\ info /\ ok, received>>)
    /\ UNCHANGED <<now, tick, signals, sell, survOut, feedVars, agent>>

\* executePartialSell(position, sellPercent) up to its first await: sellAmount
\* is computed from the position object of the signal, which is kept.
PartialSellBegins(m, sellPercent) ==
    /\ m \in DOMAIN positions
    /\ loop.partial = <<>>
    /\ (holdings[m].amount * sellPercent) % 100 = 0
    /\ loop' = [loop EXCEPT !.partial =
                  << [ mint        |-> m,
                       sellPercent |-> sellPercent,
                       sellAmount  |-> (holdings[m].amount * sellPercent) \div 100,
                       position    |-> holdings[m],
                       attached    |-> TRUE ] >>]
    /\ urgent' = <<>>
    /\ started' = <<>>
    /\ lastOp' = Op("partialSellBegins", <<m, sellPercent>>)
    /\ UNCHANGED <<now, positions, order, streamPrices, tick, signals, partialExits,
                   riskVars, survVars, feedVars, agent, store, holdings>>

\* The position object of the awaited partial sell is no longer the ledger's
\* object for mint m: the position was removed, or registered again.
Detached(l, m) ==
    IF l.partial # <<>> /\ l.partial[1].mint = m
    THEN [l EXCEPT !.partial[1].attached = FALSE] ELSE l

\* executePartialSell from its first await to its return: info is whether
\* getTokenInfo answered, ok the swap result, received the SOL it returned.
\* recordPartialSell acts on the ledger's current position of the mint.
PartialSellReturns(info, ok, received) ==
    /\ loop.partial # <<>>
    /\ LET p   == loop.partial[1]
           obj == IF p.attached THEN holdings[p.mint] ELSE p.position
       IN /\ (obj.entrySolValue * p.sellPercent) % 100 = 0
          /\ LET soldValue == (obj.entrySolValue * p.sellPercent) \div 100
             IN IF info /\ ok
                THEN /\ SellRecorded(received - soldValue)
                     /\ holdings' = RecordPartialSell(holdings, p.mint, p.sellAmount, soldValue)
                ELSE UNCHANGED <<riskVars, survival, holdings>>
          /\ lastOp' = Op("partialSellReturns", <<p.mint, info /\ ok, received>>)
    /\ loop' = [loop EXCEPT !.partial = <<>>]
    /\ urgent' = <<>>
    /\ started' = <<>>
    /\ UNCHANGED <<now, positions, order, streamPrices, tick, signals, partialExits,
                   sell, survOut, feedVars, agent, store>>

-----------------------------------------------------------------------------
(* tick(): the steps of one tick of the agent loop, between its awaits.     *)

\* tick() up to the test of riskMode: the balance is read, the peak balance
\* updated, checkSurvival run (tb: the wallet's token balance), the mode read.
\* Mode stop returns at once.
TickBegin(balance, tb) ==
    /\ loop.pc = "idle"
    /\ LET rk  == PeakBalanceUpdated(risk, balance)
           upd == UpdateTokenBalance([survival EXCEPT !.capitalSOL = balance], tb)
           sv  == [upd EXCEPT !.status = DetermineStatus(balance)]
       IN /\ risk' = rk
          /\ survival' = sv
          /\ survOut' = MakeSurvivalDecision(sv)
          /\ survOut'.action = "none"
          /\ loop' = [pc       |-> IF SuggestedAction(rk, now) = "stop" THEN "idle" ELSE "manage",
                      riskMode |-> SuggestedAction(rk, now),
                      balance  |-> balance,
                      i        |-> 0,
                      partial  |-> loop.partial]
    /\ riskOut' = [NoOut EXCEPT !.query = "getSuggestedAction",
                                !.mode = loop'.riskMode]
    /\ urgent' = <<>>
    /\ started' = <<>>
    /\ lastOp' = Op("tickBegin", <<balance>>)
    /\ UNCHANGED <<now, positions, order, streamPrices, tick, signals, partialExits,
                   dailyResetDate, sell, feedVars, agent, store, holdings>>

\* managePositions: checkAllPositions is called.
ManagePositions ==
    /\ loop.pc = "manage"
    /\ CheckAllPositionsRuns
    /\ loop' = [loop EXCEPT !.pc = "exits", !.i = 1]
    /\ UNCHANGED <<survVars, feedVars, agent, store, holdings>>

\* The polled query of the tick's checkAllPositions returns.
TickPollReturn(price) ==
    /\ loop.pc = "exits"
    /\ PollReturn(price)

\* managePositions: the loop over the returned signals, one signal a step.
ManageSignal(info, ok, received) ==
    /\ loop.pc = "exits"
    /\ tick.pc = "idle"
    /\ loop.i <= Len(signals)
    /\ LET sig == signals[loop.i] IN
       CASE sig.type = "full_sell" ->
               /\ sig.mint \in DOMAIN positions
               /\ ExecuteSell(sig.mint, info, ok, received)
         [] sig.type = "partial_sell" /\ sig.sellPercent # 0 ->
               /\ sig.mint \in DOMAIN positions
               /\ ExecutePartialSell(sig.mint, sig.sellPercent, info, ok, received)
         [] OTHER ->
               /\ urgent' = <<>>
               /\ started' = <<>>
               /\ lastOp' = Op("hold", <<>>)
               /\ UNCHANGED <<now, positions, order, streamPrices, tick, signals, partialExits,
                              riskVars, survVars, feedVars, agent, store, holdings>>
    /\ loop' = [loop EXCEPT !.i = @ + 1]

\* tick() after managePositions returned: mode pause returns, mode
\* conservative skips the entries, otherwise strategy.analyze() is awaited.
PositionsManaged ==
    /\ loop.pc = "exits"
    /\ tick.pc = "idle"
    /\ loop.i > Len(signals)
    /\ loop' = [loop EXCEPT !.pc = IF loop.riskMode \in {"pause", "conservative"}
                                   THEN "idle" ELSE "entries"]
    /\ urgent' = <<>>
    /\ started' = <<>>
    /\ lastOp' = Op("positionsManaged", <<>>)
    /\ UNCHANGED <<now, positions, order, streamPrices, tick, signals, partialExits,
                   riskVars, survVars, feedVars, agent, store, holdings>>

\* tick(): executeBuy(signal, balance) for a buy signal of strategy.analyze().
TickBuy(m, price, amount, solAmount, bought, info) ==
    /\ loop.pc = "entries"
    /\ ExecuteBuy(m, price, amount, solAmount, loop.balance, bought, info)
    /\ UNCHANGED loop

\* tick(): no buy signal is left; logStatus, return.
TickEnd ==
    /\ loop.pc = "entries"
    /\ loop' = [loop EXCEPT !.pc = "idle"]
    /\ urgent' = <<>>
    /\ started' = <<>>
    /\ lastOp' = Op("tickEnd", <<>>)
    /\ UNCHANGED <<now, positions, order, streamPrices, tick, signals, partialExits,
                   riskVars, survVars, feedVars, agent, store, holdings>>

-----------------------------------------------------------------------------
(* Process restart: every manager is constructed again from the store.     *)
(* The store holds the Position part (mint, entryPrice, entryTimestamp) of   *)
(* each open position, in insertion order (storage.ts addPosition /          *)
(* removePosition).                                                          *)

\* loadPositions: each stored position enhanced afresh.
LoadPositions(stored) ==
    [m \in DOMAIN stored |-> Enhanced(stored[m].entryPrice, stored[m].entryTimestamp)]

\* new SurviveAgent(config) in a new process.  RiskManager.loadState returns
\* the default state; SurvivalManager.loadState returns the stored
\* survivalState when a later save wrote it to disk, else the default.
Restart ==
    /\ positions' = LoadPositions(positions)
    /\ streamPrices' = EmptyMap
    /\ tick' = IdleTick
    /\ signals' = <<>>
    /\ urgent' = <<>>
    /\ started' = <<>>
    /\ risk' = InitialRiskState
    /\ dailyResetDate' = TodayString(now)
    /\ riskOut' = NoOut
    /\ survival' \in {survival, InitialSurvivalState}
    /\ sell' = IdleSell
    /\ survOut' = NoDecision
    /\ feed' = InitialFeed
    /\ socks' = <<>>
    /\ timers' = {}
    /\ feedEvents' = <<>>
    /\ shutdown' = FALSE
    /\ agent' = InitialAgent
    /\ partialExits' = [m \in DOMAIN positions |-> 0]
    /\ lastOp' = Op("restart", <<>>)
    /\ loop' = IdleLoop
    /\ UNCHANGED <<now, order, store, holdings>>

-----------------------------------------------------------------------------
(* Specifications. *)

Init ==
    /\ now = 0
    /\ positions = EmptyMap
    /\ order = <<>>
    /\ streamPrices = EmptyMap
    /\ tick = IdleTick
    /\ signals = <<>>
    /\ urgent = <<>>
    /\ started = <<>>
    /\ partialExits = EmptyMap
    /\ risk = InitialRiskState
    /\ dailyResetDate = TodayString(0)
    /\ riskOut = NoOut
    /\ survival = InitialSurvivalState
    /\ sell = IdleSell
    /\ survOut = NoDecision
    /\ feed = InitialFeed
    /\ socks = <<>>
    /\ timers = {}
    /\ feedEvents = <<>>
    /\ shutdown = FALSE
    /\ agent = InitialAgent
    /\ store = <<>>
    /\ holdings = EmptyMap
    /\ loop = IdleLoop
    /\ lastOp = Op("init", <<>>)

\* Inputs of the position ledger.
EntryPrices    == {100}
Prices         == {79, 80, 81, 130, 135, 140, 160, 200}
TightenFactors == { <<4, 5>> }
PositionInstants ==
    { 0, Minutes(5) - 1, Minutes(5), 24 * MsPerHour }

NextPosition ==
    \/ \E m \in Mints, e \in EntryPrices : AddPosition(m, e)
    \/ CheckAllPositions
    \/ \E p \in Prices \cup {0} : PollReturn(p)
    \/ \E m \in Mints, p \in Prices : HandlePriceUpdate(m, p)
    \/ \E m \in Mints : RemovePosition(m)
    \/ \E f \in TightenFactors : TightenStops(f)
    \/ \E t \in PositionInstants : AdvanceTime(t)

SpecPosition == Init /\ [][NextPosition]_vars

\* Inputs of the risk guardrail.
Balances    == {15, 20, 25}
Amounts     == {4, 5}
Exposures   == {0, 12}
Profits     == {<<-1>>, <<0>>, <<1>>, <<>>}
TradeTypes  == {"buy", "sell"}
RiskInstants ==
    { 0, 30 * 1000, Minutes(1), Minutes(30), Minutes(31), MsPerDay, MsPerDay + Minutes(30) }

NextRisk ==
    \/ \E a \in Amounts, b \in Balances, e \in Exposures : CanOpenPosition(a, b, e)
    \/ \E ty \in TradeTypes, pr \in Profits : RecordTradeResult(ty, pr)
    \/ \E b \in Balances : UpdatePeakBalance(b)
    \/ GetSuggestedAction
    \/ ClearCooldown
    \/ \E t \in RiskInstants : AdvanceTime(t)

SpecRisk == Init /\ [][NextRisk]_vars


-----------------------------------------------------------------------------
(* Properties of the position ledger (SpecPosition). *)

\* A step that evaluates positions: checkAllPositions up to its first await,
\* or its continuation after a polled query.
TickStep == lastOp'.op \in {"checkAllPositions", "pollReturn"}

\* A step that is a price observation of either path.
ObservationStep == lastOp'.op \in {"handlePriceUpdate", "checkAllPositions", "pollReturn"}

\* The signals the step appended.
NewSignals ==
    IF lastOp'.op = "checkAllPositions" THEN signals'
    ELSE SubSeq(signals', Len(signals) + 1, Len(signals'))

\* The position object a signal of this step was computed from, before the step.
EvaluatedObject(s) ==
    IF lastOp'.op = "pollReturn" /\ tick.detached # <<>> /\ tick.mint = <<s.mint>>
    THEN tick.detached[1]
    ELSE positions[s.mint]

AtOrBelowHardStop(pos, price) == (price - pos.entryPrice) * 100 <= -(stopLossPercent * pos.entryPrice)

AtOrBelowTrailingStop(pos, price) ==
    pos.trailingStopPrice # <<>> /\ price * pos.trailingStopPrice[2] <= pos.trailingStopPrice[1]

GainAtLeast(pos, price, pct) == (price - pos.entryPrice) * 100 >= pct * pos.entryPrice

\* C1: a price at or below the hard stop-loss level gives full_sell/critical
\* whatever the hold time, the trailing stop and the partial-take mark; a price
\* above it gives hold when no other rule of evaluatePosition applies.
C1_HardStopLossFirst ==
    [][ TickStep =>
          \A i \in DOMAIN NewSignals :
             LET s   == NewSignals[i]
                 pos == EvaluatedObject(s)
             IN /\ AtOrBelowHardStop(pos, s.price)
                     => s.type = "full_sell" /\ s.urgency = "critical" /\ s.sellPercent = 100
                /\ ( /\ ~AtOrBelowHardStop(pos, s.price)
                     /\ ~AtOrBelowTrailingStop(pos, s.price)
                     /\ ~GainAtLeast(pos, s.price, takeProfitPercent)
                     /\ (pos.partialTakeDone \/ ~GainAtLeast(pos, s.price, partialTakePercent))
                     /\ s.holdTimeMs < maxHoldTimeHours * MsPerHour )
                     => s.type = "hold"
      ]_vars

\* C1 witness: 0.79 on an entry of 1.00 gave full_sell/critical inside the
\* minimum hold window, with a trailing stop set and the partial take done.
C1_Witness ==
    /\ signals # <<>>
    /\ tick.pc = "idle"
    /\ LET s == signals[Len(signals)] IN
        /\ s.price = 79 /\ s.type = "full_sell" /\ s.urgency = "critical"
        /\ s.holdTimeMs < minHoldTimeMinutes * MsPerMinute
        /\ s.mint \in DOMAIN positions
        /\ positions[s.mint].entryPrice = 100
        /\ positions[s.mint].trailingStopPrice # <<>>
        /\ positions[s.mint].partialTakeDone

\* C2: over stream price events and tick evaluations, a trailing stop that is
\* set stays set and never decreases while the position is open.
C2_TrailingStopRatchet ==
    [][ ObservationStep =>
          \A m \in DOMAIN positions :
             positions[m].trailingStopPrice # <<>>
                => /\ m \in DOMAIN positions'
                   /\ positions'[m].trailingStopPrice # <<>>
                   /\ RatLE(positions[m].trailingStopPrice, positions'[m].trailingStopPrice)
      ]_vars

\* C2 witness: a stream event below the activation gain arrived on a position
\* whose stop had been raised to 1.36, and the stop is still 1.36.
C2_Witness ==
    /\ lastOp = Op("handlePriceUpdate", <<"A", 81>>)
    /\ "A" \in DOMAIN positions
    /\ positions["A"].highestPrice = 160
    /\ positions["A"].trailingStopPrice = <<136, 1>>

\* The stop of pos is highestPrice * (1 - trailingStopPercent / 100).
StopTrailsHigh(pos) ==
    /\ pos.trailingStopPrice # <<>>
    /\ pos.trailingStopPrice[1] * 100
          = pos.highestPrice * (100 - trailingStopPercent) * pos.trailingStopPrice[2]

\* What a stream event or a polled evaluation at `price` does to the stop.
StopFollows(pre, post, price) ==
    /\ GainAtLeast(pre, price, trailingActivationPercent) => StopTrailsHigh(post)
    /\ (pre.trailingStopPrice # <<>> /\ post.highestPrice > pre.highestPrice)
          => RatLT(pre.trailingStopPrice, post.trailingStopPrice)

\* C3: an observation with gain >= trailingActivationPercent sets the stop to
\* highestPrice * (1 - trailingStopPercent), each new high raises it, and a
\* price at or below the stop and above the hard stop-loss level gives
\* full_sell/critical by the trailing stop (tick) and the trailing-stop
\* urgent_exit alone (stream).
C3_TrailingStopExit ==
    [][ /\ lastOp'.op = "handlePriceUpdate" =>
             LET m == lastOp'.args[1]
                 p == lastOp'.args[2]
             IN /\ StopFollows(positions[m], positions'[m], p)
                /\ (AtOrBelowTrailingStop(positions'[m], p) /\ ~AtOrBelowHardStop(positions'[m], p))
                      => urgent' = << [mint |-> m, reason |-> "trailing_stop", price |-> p] >>
        /\ (lastOp'.op = "pollReturn" /\ lastOp'.args[2] # 0 /\ tick.detached = <<>>) =>
             LET m == lastOp'.args[1]
             IN StopFollows(positions[m], positions'[m], lastOp'.args[2])
        /\ TickStep =>
             \A i \in DOMAIN NewSignals :
                LET s   == NewSignals[i]
                    pos == EvaluatedObject(s)
                IN (AtOrBelowTrailingStop(pos, s.price) /\ ~AtOrBelowHardStop(pos, s.price))
                      => /\ s.type = "full_sell" /\ s.urgency = "critical"
                         /\ s.reason = "trailing_stop"
      ]_vars

\* C3 witness: after a high of 1.60 (stop 1.36) a polled 1.35 gave the
\* trailing-stop exit.
C3_Witness ==
    /\ lastOp = Op("pollReturn", <<"A", 135>>)
    /\ "A" \in DOMAIN positions
    /\ positions["A"].entryPrice = 100
    /\ positions["A"].highestPrice = 160
    /\ positions["A"].trailingStopPrice = <<136, 1>>
    /\ signals # <<>>
    /\ signals[Len(signals)].reason = "trailing_stop"
    /\ signals[Len(signals)].type = "full_sell"
    /\ signals[Len(signals)].urgency = "critical"

\* C4: over price observations partialTakeDone never goes back to false, and
\* an open position has had at most one partial_sell signal.
C4_PartialTakeOnce ==
    /\ [](\A m \in DOMAIN positions :
             /\ partialExits[m] <= 1
             /\ (partialExits[m] = 1) = positions[m].partialTakeDone)
    /\ [][ ObservationStep =>
             \A m \in DOMAIN positions \cap DOMAIN positions' :
                positions[m].partialTakeDone => positions'[m].partialTakeDone
         ]_vars

\* C4 witness: the partial-take threshold is crossed again (1.60 on an entry
\* of 1.00) after the partial take was done, and the evaluation holds.
C4_Witness ==
    /\ lastOp = Op("pollReturn", <<"A", 160>>)
    /\ "A" \in DOMAIN positions
    /\ positions["A"].partialTakeDone
    /\ partialExits["A"] = 1
    /\ signals # <<>>
    /\ signals[Len(signals)].price = 160
    /\ signals[Len(signals)].type = "hold"

\* C9: inside the minimum hold window an evaluation that is not a hard
\* stop-loss or trailing-stop exit is a hold.
C9_MinHoldWindowHolds ==
    \A i \in DOMAIN signals :
       (signals[i].holdTimeMs < minHoldTimeMinutes * MsPerMinute
          /\ signals[i].reason \notin {"stop_loss", "trailing_stop"})
          => signals[i].type = "hold"

\* C10: tightenStops never lowers a trailing stop and leaves a position
\* without a trailing stop unchanged.
C10_TightenNeverLowers ==
    [][ lastOp'.op = "tightenStops" =>
          \A m \in DOMAIN positions :
             IF positions[m].trailingStopPrice = <<>>
             THEN positions'[m] = positions[m]
             ELSE /\ positions'[m].trailingStopPrice # <<>>
                  /\ RatLE(positions[m].trailingStopPrice, positions'[m].trailingStopPrice)
      ]_vars

\* The tracked extremes and the trailing stop of a position.
Tracking(pos) ==
    [ highestPrice      |-> pos.highestPrice,
      lowestPrice       |-> pos.lowestPrice,
      trailingStopPrice |-> pos.trailingStopPrice ]

\* C36: a price leaves the same highestPrice, lowestPrice and trailingStopPrice
\* whether it arrives as a stream event or as the polled price of a tick: each
\* path's step on a position equals the other path's step on that position.
C36_PricePathsAgree ==
    [][ /\ lastOp'.op = "handlePriceUpdate" =>
             LET m == lastOp'.args[1]
                 p == lastOp'.args[2]
             IN Tracking(positions'[m])
                   = Tracking(CheckOne(m, positions[m], p, TRUE, now).position)
        /\ ( /\ lastOp'.op = "pollReturn"
              /\ lastOp'.args[2] # 0
              /\ tick.detached = <<>> ) =>
             LET m == lastOp'.args[1]
                 p == lastOp'.args[2]
             IN Tracking(positions'[m])
                   = Tracking(UpdateTrailingStopFromStream(UpdateHighLow(positions[m], p), p))
      ]_vars

\* C36 witness: stream events have moved the high, the low and the trailing
\* stop of a position.
C36_Witness ==
    /\ lastOp.op = "handlePriceUpdate"
    /\ "A" \in DOMAIN positions
    /\ Truthy(positions["A"].trailingStopPrice)
    /\ positions["A"].highestPrice > positions["A"].entryPrice
    /\ positions["A"].lowestPrice < positions["A"].entryPrice

\* C35: an evaluation of a position held for maxHoldTimeHours or longer
\* returns a full exit, whatever the price.
C35_MaxHoldAlwaysExits ==
    \A i \in DOMAIN signals :
       signals[i].holdTimeMs >= maxHoldTimeHours * MsPerHour => signals[i].type = "full_sell"

-----------------------------------------------------------------------------
(* Properties of the risk guardrail (SpecRisk). *)

CooldownRunning == risk.cooldownUntil # <<>> /\ now < risk.cooldownUntil[1]
DailyLossBreached == risk.dailyPnL * 10 <= -initialCapitalSol
DrawdownBreached(balance) ==
    risk.peakBalance # 0
       /\ (risk.peakBalance - balance) * 100 >= maxDrawdownPercent * risk.peakBalance
ExposureBreached(balance, exposure) == exposure * 100 >= maxExposurePercent * balance
SizeBreached(balance, amount) == amount * 100 > maxSinglePositionPercent * balance
SpacingNotElapsed ==
    risk.lastTradeTimestamp # <<>>
       /\ now - risk.lastTradeTimestamp[1] < minTimeBetweenTradesMs

Blocked(reason) ==
    ~riskOut.canTrade /\ riskOut.severity = "blocked" /\ riskOut.reason = reason

\* C5: canOpenPosition reports the first failing check in the order cooldown,
\* daily loss, drawdown, exposure, position size, and allows when none fails.
C5_FirstFailingCheck ==
    lastOp.op = "canOpenPosition" =>
       LET a == lastOp.args[1]
           b == lastOp.args[2]
           e == lastOp.args[3]
       IN IF CooldownRunning THEN Blocked("cooldown")
          ELSE IF DailyLossBreached THEN Blocked("daily_loss")
          ELSE IF DrawdownBreached(b) THEN Blocked("drawdown")
          ELSE IF ExposureBreached(b, e) THEN Blocked("exposure")
          ELSE IF SizeBreached(b, a) THEN Blocked("position_size")
          ELSE riskOut.canTrade

\* C6: the maxConsecutiveLosses-th consecutive loss sets cooldownUntil to
\* now + cooldownAfterLossesMs; canOpenPosition is blocked before cooldownUntil
\* and, the other checks passing, allowed from cooldownUntil on.
C6_CooldownExpires ==
    /\ [](lastOp.op = "canOpenPosition" =>
            LET a == lastOp.args[1]
                b == lastOp.args[2]
                e == lastOp.args[3]
            IN /\ CooldownRunning => Blocked("cooldown")
               /\ ( /\ ~CooldownRunning
                    /\ ~DailyLossBreached /\ ~DrawdownBreached(b)
                    /\ ~ExposureBreached(b, e) /\ ~SizeBreached(b, a)
                    /\ ~SpacingNotElapsed )
                    => riskOut.canTrade)
    /\ [][ ( /\ lastOp'.op = "recordTradeResult"
             /\ lastOp'.args[1] = "sell"
             /\ lastOp'.args[2] # <<>>
             /\ lastOp'.args[2][1] < 0
             /\ risk'.consecutiveLosses = maxConsecutiveLosses )
             => risk'.cooldownUntil = <<now + cooldownAfterLossesMs>>
         ]_vars

\* C6 witness: canOpenPosition allowed at the instant cooldownUntil, the
\* cooldown never cleared and the loss streak still standing.
C6_Witness ==
    /\ lastOp.op = "canOpenPosition"
    /\ risk.cooldownUntil # <<>>
    /\ now = risk.cooldownUntil[1]
    /\ risk.consecutiveLosses >= maxConsecutiveLosses
    /\ riskOut.canTrade

\* C7: a sell with positive profit sets consecutiveLosses to 0; a sell with
\* negative profit adds exactly 1.
C7_LossStreakCounter ==
    [][ ( /\ lastOp'.op = "recordTradeResult"
          /\ lastOp'.args[1] = "sell"
          /\ lastOp'.args[2] # <<>> )
          => /\ lastOp'.args[2][1] > 0 => risk'.consecutiveLosses = 0
             /\ lastOp'.args[2][1] < 0 => risk'.consecutiveLosses = risk.consecutiveLosses + 1
      ]_vars

\* C7 witness: a winning sell recorded while a cooldown is running.
C7_Witness ==
    /\ lastOp = Op("recordTradeResult", <<"sell", <<1>>>>)
    /\ CooldownRunning
    /\ risk.consecutiveLosses = 0

\* C8: a guardrail query on a later UTC day resets dailyPnL first, so
\* getSuggestedAction returns stop only for losses of the current day.
C8_DailyResetBeforeMode ==
    (lastOp.op = "getSuggestedAction" /\ riskOut.mode = "stop")
       => dailyResetDate = TodayString(now)

\* C34: peakBalance never decreases and, after updatePeakBalance or
\* canOpenPosition observed a balance, is at least that balance.
C34_PeakCoversObservedBalance ==
    [][ /\ risk'.peakBalance >= risk.peakBalance
        /\ lastOp'.op = "updatePeakBalance" => risk'.peakBalance >= lastOp'.args[1]
        /\ lastOp'.op = "canOpenPosition" => risk'.peakBalance >= lastOp'.args[2]
      ]_vars

\* currentDrawdown > 15, the drawdown in percent
DrawdownAboveFifteen == risk.currentDrawdown[1] > 15 * risk.currentDrawdown[2]

\* C33: getSuggestedAction returns stop when the daily loss limit is reached,
\* otherwise pause while a cooldown runs, otherwise conservative with two or
\* more consecutive losses or a drawdown above 15%, otherwise normal.
C33_ModePriority ==
    lastOp.op = "getSuggestedAction" =>
       riskOut.mode =
          IF DailyLossBreached THEN "stop"
          ELSE IF CooldownRunning THEN "pause"
          ELSE IF risk.consecutiveLosses >= 2 \/ DrawdownAboveFifteen THEN "conservative"
          ELSE "normal"

\* C33 witness: stop returned while a cooldown is running, too.
C33_Witness ==
    /\ lastOp.op = "getSuggestedAction"
    /\ CooldownRunning
    /\ DailyLossBreached
    /\ riskOut.mode = "stop"


-----------------------------------------------------------------------------
(* The live path: stream events and the agent's urgent-exit reaction. *)

\* C19: a stream price event that breaches the hard stop-loss or the trailing
\* stop of an open position emits urgent_exit for it within the same event,
\* and the agent's listener starts a full sell of that position.
C19_UrgentExitOnStreamBreach ==
    [][ lastOp'.op = "handlePriceUpdate" =>
          LET m == lastOp'.args[1]
              p == lastOp'.args[2]
          IN (AtOrBelowHardStop(positions'[m], p) \/ AtOrBelowTrailingStop(positions'[m], p))
                => /\ \E i \in DOMAIN urgent' : urgent'[i].mint = m /\ urgent'[i].price = p
                   /\ \E j \in DOMAIN started' : started'[j] = [mint |-> m, sellPercent |-> 100]
      ]_vars

\* C19 witness: a stream event at 1.35 breached the trailing stop 1.36 while
\* a tick was suspended in its polling query, and a full sell was started.
C19_Witness ==
    /\ lastOp = Op("handlePriceUpdate", <<"A", 135>>)
    /\ tick.pc = "await"
    /\ "A" \in DOMAIN positions
    /\ positions["A"].trailingStopPrice = <<136, 1>>
    /\ urgent = << [mint |-> "A", reason |-> "trailing_stop", price |-> 135] >>
    /\ started = << [mint |-> "A", sellPercent |-> 100] >>


-----------------------------------------------------------------------------
(* The survival reserve (SpecSurvival). *)

Capitals      == {1, 2, 4, 5, 9, 10}
TokenReads    == {<<>>, <<0>>, <<100>>}
SellPercents  == {PARTIAL_SELL_PERCENT, EMERGENCY_SELL_PERCENT}

NextSurvival ==
    \/ \E ok \in BOOLEAN, tb \in TokenReads : LaunchToken(ok, tb)
    \/ \E b \in Capitals, tb \in TokenReads : CheckSurvival(b, tb)
    \/ \E pc \in SellPercents : SellForSurvival(pc)
    \/ \E ok \in BOOLEAN, tb \in TokenReads : SellReturns(ok, tb)

SpecSurvival == Init /\ [][NextSurvival]_vars

\* C11: survivalSellCount is unchanged by checkSurvival and by a refused
\* sellForSurvival, and a sellForSurvival call leaves it one higher when its
\* sale succeeded and unchanged when its sale failed.
C11_SellCountOnExecution ==
    [][ /\ lastOp'.op = "checkSurvival"
             => survival'.survivalSellCount = survival.survivalSellCount
        /\ (lastOp'.op = "sellForSurvival" /\ lastOp'.args[2] = "refused")
             => survival'.survivalSellCount = survival.survivalSellCount
        /\ lastOp'.op = "sellReturns"
             => survival'.survivalSellCount
                   = sell.before + (IF lastOp'.args[1] THEN 1 ELSE 0)
      ]_vars

\* The status and action the thresholds give for a capital and a reserve.
ExpectedDecision(capital, reserveNonzero) ==
    IF capital * 100 >= 2 * LOW_CAPITAL_PERCENT * initialCapitalSol
    THEN [status |-> "healthy", action |-> "none", amount |-> 0]
    ELSE IF capital * 100 >= LOW_CAPITAL_PERCENT * initialCapitalSol
    THEN [status |-> "low", action |-> "none", amount |-> 0]
    ELSE IF capital * 100 >= CRITICAL_CAPITAL_PERCENT * initialCapitalSol
    THEN IF reserveNonzero
         THEN [status |-> "critical", action |-> "sell_token_partial", amount |-> 10]
         ELSE [status |-> "critical", action |-> "none", amount |-> 0]
    ELSE IF reserveNonzero
         THEN [status |-> "emergency", action |-> "sell_token_emergency", amount |-> 20]
         ELSE [status |-> "emergency", action |-> "none", amount |-> 0]

-----------------------------------------------------------------------------
(* Restart (SpecRestart): the ledger and the guardrail with a restart.      *)

RestartPrices   == {135, 160}
RestartInstants == {Minutes(30)}

NextRestart ==
    \/ \E m \in Mints, e \in EntryPrices : AddPosition(m, e)
    \/ CheckAllPositions
    \/ \E p \in RestartPrices \cup {0} : PollReturn(p)
    \/ \E m \in Mints : HandlePriceUpdate(m, 160)
    \/ \E m \in Mints : RemovePosition(m)
    \/ CanOpenPosition(4, 20, 0)
    \/ RecordTradeResult("sell", <<-1>>)
    \/ UpdatePeakBalance(25)
    \/ \E t \in RestartInstants : AdvanceTime(t)
    \/ Restart

SpecRestart == Init /\ [][NextRestart]_vars

\* C13: a restart leaves each open position's highestPrice, trailingStopPrice
\* and partialTakeDone as they were, so that later prices give the same
\* signals as without the restart.
C13_RestartKeepsPositions ==
    [][ lastOp'.op = "restart" =>
          \A m \in DOMAIN positions :
             /\ m \in DOMAIN positions'
             /\ positions'[m].highestPrice = positions[m].highestPrice
             /\ positions'[m].trailingStopPrice = positions[m].trailingStopPrice
             /\ positions'[m].partialTakeDone = positions[m].partialTakeDone
      ]_vars

\* C14: a restart leaves dailyPnL, peakBalance, consecutiveLosses and an
\* unexpired cooldownUntil as they were.
C14_RestartKeepsRiskState ==
    [][ lastOp'.op = "restart" =>
          /\ risk'.dailyPnL = risk.dailyPnL
          /\ risk'.peakBalance = risk.peakBalance
          /\ risk'.consecutiveLosses = risk.consecutiveLosses
          /\ (risk.cooldownUntil # <<>> /\ now < risk.cooldownUntil[1])
                => risk'.cooldownUntil = risk.cooldownUntil
      ]_vars


-----------------------------------------------------------------------------
(* The price feed (SpecFeed). *)

FeedInstants  == {5000, 60000, 90001}

NextFeed ==
    \/ Connect
    \/ Disconnect
    \/ \E s \in 1..MaxSockets : SocketOpen(s)
    \/ \E s \in 1..MaxSockets : SocketError(s)
    \/ \E s \in 1..MaxSockets : SocketClosed(s)
    \/ \E s \in 1..MaxSockets : ConnectTimeout(s)
    \/ \E tm \in timers : ReconnectTimerFires(tm)
    \/ HeartbeatTick
    \/ \E s \in 1..MaxSockets : Pong(s)
    \/ \E t \in FeedInstants : AdvanceTime(t)

SpecFeed == Init /\ [][NextFeed]_vars

\* The handlers the feed runs by itself: socket events and timers.
FeedHandlerOps ==
    {"socketOpen", "socketError", "socketClosed", "connectTimeout",
     "reconnectTimer", "heartbeat", "pong"}

\* C15: after disconnect() the heartbeat timer and every reconnect timer are
\* cancelled, and until the next connect() the feed makes no connection
\* attempt, sends no probe and schedules no reconnect.
C15_QuietAfterDisconnect ==
    /\ [](lastOp.op = "disconnect" => feed.heartbeatDue = <<>> /\ timers = {})
    /\ [][ (shutdown /\ lastOp'.op \in FeedHandlerOps) =>
             /\ \A i \in DOMAIN feedEvents' : feedEvents'[i] \notin {"attempt", "ping"}
             /\ timers' \subseteq timers
         ]_vars

\* C16: each failure schedules one reconnect (the 'close' that follows a
\* failed connect schedules none: its 'error' did), and once reconnect_failed
\* is emitted no reconnect is pending.
C16_OneReconnectPerFailure ==
    [][ /\ (lastOp'.op = "socketClosed" /\ lastOp'.args[2] = "failed")
             => /\ timers' = timers
                /\ feed'.reconnectAttempts = feed.reconnectAttempts
        /\ (lastOp'.op \in FeedHandlerOps
              /\ \E i \in DOMAIN feedEvents' : feedEvents'[i] = "reconnect_failed")
             => timers' = {}
      ]_vars

\* C17: at a heartbeat tick on an open connection, a last pong more than 60 s
\* old tears the connection down and starts a new connection; otherwise the
\* tick only sends a probe.
C17_HeartbeatTimeout ==
    [][ ( /\ lastOp'.op = "heartbeat"
          /\ feed.ws # <<>>
          /\ socks[feed.ws[1]].state = "open" )
          => IF now - feed.lastPong > heartbeatTimeoutMs
             THEN /\ socks'[feed.ws[1]].state = "closing"
                  /\ feed'.heartbeatDue = <<>>
                  /\ ~feed'.isConnected
                  /\ Len(socks') = Len(socks) + 1
                  /\ feed'.ws = <<Len(socks')>>
                  /\ socks'[Len(socks')].state = "connecting"
             ELSE /\ feedEvents' = <<"ping">>
                  /\ socks' = [socks EXCEPT ![feed.ws[1]].unacked = TRUE]
                  /\ timers' = timers
                  /\ feed' = [feed EXCEPT !.heartbeatDue = <<now + heartbeatIntervalMs>>]
      ]_vars

\* C17 witness: the heartbeat tick at 90.001 s, the last pong 60.001 s old,
\* closed the open socket and created a new one.
C17_Witness ==
    /\ lastOp.op = "heartbeat"
    /\ now - feed.lastPong > heartbeatTimeoutMs
    /\ feedEvents = <<"ping", "attempt">>
    /\ Len(socks) = 2
    /\ socks[1].state = "closing"
    /\ socks[2].state = "connecting"
    /\ feed.ws = <<2>>

\* C29: a heartbeat tick that fires within one interval of its due time does
\* not tear down an open connection on which every probe sent so far has
\* been acknowledged.
C29_AckedConnectionKept ==
    [][ ( /\ lastOp'.op = "heartbeat"
          /\ now - feed.heartbeatDue[1] < heartbeatIntervalMs
          /\ feed.ws # <<>>
          /\ socks[feed.ws[1]].state = "open"
          /\ ~socks[feed.ws[1]].unacked )
          => socks'[feed.ws[1]].state = "open"
      ]_vars

\* The sockets that are open or being opened.
LiveSockets == {s \in DOMAIN socks : socks[s].state \in {"connecting", "open"}}

\* C32: at any time at most one socket of the feed is open or connecting.
C32_OneLiveTransport == Cardinality(LiveSockets) <= 1

-----------------------------------------------------------------------------
(* Subscriptions of the price feed (SpecSubscribe). *)

NextSubscribe ==
    \/ NextFeed
    \/ \E m \in Mints : Subscribe(m)
    \/ \E m \in Mints : Unsubscribe(m)

SpecSubscribe == Init /\ [][NextSubscribe]_vars

\* C37: the set of subscribed assets changes only in subscribe and
\* unsubscribe, and a connect that succeeds has sent a subscribe request for
\* every subscribed asset on the socket that opened.
C37_SubscriptionsSurviveReconnect ==
    [][ /\ feed'.subscribedTokens # feed.subscribedTokens
             => lastOp'.op \in {"subscribe", "unsubscribe"}
        /\ (lastOp'.op = "socketOpen" /\ feedEvents' = <<"connected">>)
             => feed'.subscribedTokens \subseteq socks'[lastOp'.args[1]].requests
      ]_vars

-----------------------------------------------------------------------------
(* Fan-out of a price event (SpecFanOut). *)

FanOutPrices == {135, 160}
FanOutListeners ==
    {PriceCallbacks[i] : i \in DOMAIN PriceCallbacks}
       \cup {PriceObservers[i] : i \in DOMAIN PriceObservers}

NextFanOut ==
    \/ Connect
    \/ Disconnect
    \/ \E s \in 1..MaxSockets : SocketOpen(s)
    \/ \E s \in 1..MaxSockets : SocketClosed(s)
    \/ \E m \in Mints : Subscribe(m)
    \/ \E s \in 1..MaxSockets, m \in Mints, p \in FanOutPrices, faulty \in SUBSET FanOutListeners :
          PriceData(s, m, p, faulty)

SpecFanOut == Init /\ [][NextFanOut]_vars

\* C38: when one callback or observer throws during the fan-out of a price
\* event, every other callback and observer is still invoked, the cache holds
\* the event's price and the feed's connection is untouched.
C38_FaultyListenerIsolated ==
    [][ (lastOp'.op = "priceData" /\ Cardinality(lastOp'.args[3]) = 1)
        => /\ \A l \in FanOutListeners \ lastOp'.args[3] :
                 \E i \in DOMAIN feed'.notified : feed'.notified[i] = l
           /\ feed'.latestPrices[lastOp'.args[1]] = lastOp'.args[2]
           /\ feed'.isConnected = feed.isConnected
           /\ socks' = socks
      ]_vars

-----------------------------------------------------------------------------
(* The agent loop (SpecLoop). *)

StartBalances == {20}

NextLoop ==
    \/ StartAgent
    \/ \E i \in 1..MaxLoops, b \in StartBalances : StartResumes(i, b)
    \/ StopAgent
    \/ TickCompletes
    \/ SleepEnds
    \/ \E s \in 1..MaxSockets : SocketOpen(s)

SpecLoop == Init /\ [][NextLoop]_vars


\* C20: at most one tick of the agent loop is executing.
C20_OneTickAtATime == agent.ticking <= 1

\* C26: one stream event never starts two sells of the same position.
C26_OneSellPerPosition ==
    \A i, j \in DOMAIN started : i # j => started[i].mint # started[j].mint

-----------------------------------------------------------------------------
(* Profit handling (SpecProfit). *)

RealizedProfits == {-100, 0, 200, 1000, 2000}

NextProfit ==
    \/ \E ok \in BOOLEAN, tb \in TokenReads : LaunchToken(ok, tb)
    \/ \E pr \in RealizedProfits, ok \in BOOLEAN, tb \in TokenReads : HandleProfit(pr, ok, tb)

SpecProfit == Init /\ [][NextProfit]_vars

\* C25: every handleProfit call with a positive profit whose purchase does
\* not fail adds 30% of the profit to the executed purchases (the program
\* keeps no pending amount), so nothing earmarked is dropped.
C25_EarmarkNeverDropped ==
    [][ (lastOp'.op = "handleProfit" /\ lastOp'.args[1] > 0 /\ lastOp'.args[2])
          => (survival'.totalTokenBought - survival.totalTokenBought) * 100
                = lastOp'.args[1] * PROFIT_TO_BUY_PERCENT
      ]_vars

-----------------------------------------------------------------------------
(* Position sizing (SpecSizing).  Sizes and balances are fractions of SOL. *)

SizeBases       == {<<1, 50>>, <<2, 1>>, <<10, 1>>}
SizeBalances    == {<<0, 1>>, <<1, 50>>, <<1, 20>>, <<20, 1>>}
SizeConfidences == {0, 60, 100}

NextSizing ==
    \/ \E base \in SizeBases, b \in SizeBalances, c \in SizeConfidences :
          CalculatePositionSize(base, b, c)
    \/ \E pr \in {<<-1>>, <<1>>} : RecordTradeResult("sell", pr)
    \/ \E b \in {15, 20} : UpdatePeakBalance(b)

SpecSizing == Init /\ [][NextSizing]_vars

\* C22: calculatePositionSize returns a size of at least 0.01 and at most
\* maxSinglePositionPercent of the balance.
C22_SizeWithinFloorAndCeiling ==
    lastOp.op = "calculatePositionSize" =>
        /\ RatLE(minViableTrade, riskOut.size)
        /\ RatLE(riskOut.size, MaxSingleSize(lastOp.args[2]))

\* C23: when checks (1)-(5) pass, canOpenPosition allows the trade, with
\* severity warning when the inter-trade spacing has not elapsed or the
\* daily P&L is at or beyond 70% of the loss ceiling.
C23_WarningsNeverBlock ==
    lastOp.op = "canOpenPosition" =>
       LET a == lastOp.args[1]
           b == lastOp.args[2]
           e == lastOp.args[3]
       IN (~CooldownRunning /\ ~DailyLossBreached /\ ~DrawdownBreached(b)
              /\ ~ExposureBreached(b, e) /\ ~SizeBreached(b, a))
          => /\ riskOut.canTrade
             /\ (SpacingNotElapsed \/ risk.dailyPnL * 100 <= -(initialCapitalSol * 7))
                   => riskOut.severity = "warning"

-----------------------------------------------------------------------------
(* Trades against the store and the ledger (SpecTrade). *)

TradePrices    == {100, 160}
TradeAmounts   == {2}
TradeSols      == {4, 8}
TradeBalances  == {40}
TradeReceived  == {1, 5, 9}
TradeInstants  == {Minutes(1), Minutes(2)}

NextTrade ==
    \/ \E m \in Mints, p \in TradePrices, a \in TradeAmounts, v \in TradeSols,
          b \in TradeBalances, bought \in BOOLEAN, info \in BOOLEAN :
          ExecuteBuy(m, p, a, v, b, bought, info) /\ UNCHANGED loop
    \/ \E m \in Mints, info \in BOOLEAN, ok \in BOOLEAN, r \in TradeReceived :
          ExecutePartialSell(m, partialTakeSize, info, ok, r) /\ UNCHANGED loop
    \/ \E m \in Mints, info \in BOOLEAN, ok \in BOOLEAN, r \in TradeReceived :
          ExecuteSell(m, info, ok, r) /\ UNCHANGED loop
    \/ \E t \in TradeInstants : AdvanceTime(t)

SpecTrade == Init /\ [][NextTrade]_vars

\* C24: a buy of an asset already in the store leaves one stored Position
\* for it, whose amount and entrySolValue are the sums and whose entry price
\* is the average of the two entry prices weighted by amount; the ledger
\* holds the same position.
C24_RebuyAveragesIn ==
    [][ ( /\ lastOp'.op = "executeBuy"
          /\ riskOut'.canTrade
          /\ lastOp'.args[5]
          /\ GetPosition(store, lastOp'.args[1]) # <<>> )
        => LET m   == lastOp'.args[1]
               old == GetPosition(store, m)[1]
               new == GetPosition(store', m)[1]
           IN /\ Cardinality({i \in DOMAIN store' : store'[i].tokenMint = m}) = 1
              /\ new.amount = old.amount + lastOp'.args[3]
              /\ new.entrySolValue = old.entrySolValue + lastOp'.args[4]
              /\ new.entryPrice * new.amount
                    = old.entryPrice * old.amount + lastOp'.args[2] * lastOp'.args[3]
              /\ m \in DOMAIN positions'
              /\ holdings'[m] = Quantity(new)
              /\ positions'[m].entryPrice = new.entryPrice
      ]_vars

\* C27: after every completed buy, partial sell and full sell the ledger
\* tracks exactly the stored assets, with the stored amount and entry value.
C27_LedgerMatchesStore ==
    /\ DOMAIN positions = StoreMints(store)
    /\ \A m \in DOMAIN positions : holdings[m] = Quantity(GetPosition(store, m)[1])

-----------------------------------------------------------------------------
(* The tick of the agent loop (SpecTick). *)

TickBalances == {40}
TickPolls    == {100, 79, 150}
TickSols     == {4, 8}
TickReceived == {3, 6}
TickInstants == {Minutes(1), Minutes(2), Minutes(3), Minutes(4), Minutes(40)}

NextTick ==
    \/ \E b \in TickBalances : TickBegin(b, <<>>)
    \/ ManagePositions
    \/ \E p \in TickPolls : TickPollReturn(p)
    \/ \E r \in TickReceived : ManageSignal(TRUE, TRUE, r)
    \/ PositionsManaged
    \/ \E m \in Mints, v \in TickSols : TickBuy(m, 100, 2, v, TRUE, TRUE)
    \/ TickEnd
    \/ \E t \in TickInstants : AdvanceTime(t)

SpecTick == Init /\ [][NextTick]_vars

\* C21: a buy is executed only while the guardrail's suggested mode is normal.
C21_BuyOnlyInNormalMode ==
    [][ (lastOp'.op = "executeBuy" /\ riskOut'.canTrade /\ lastOp'.args[5])
          => SuggestedAction(risk', now') = "normal"
      ]_vars

\* C28: every tick that finds open positions goes on to managePositions,
\* whatever the mode it read.
C28_EveryTickManagesPositions ==
    [][ (lastOp'.op = "tickBegin" /\ DOMAIN positions # {}) => loop'.pc = "manage" ]_vars

\* The steps of the tick itself: runLoop keeps calling tick() and every
\* awaited call returns.
TickSteps ==
    \/ \E b \in TickBalances : TickBegin(b, <<>>)
    \/ ManagePositions
    \/ \E p \in TickPolls : TickPollReturn(p)
    \/ \E r \in TickReceived : ManageSignal(TRUE, TRUE, r)
    \/ PositionsManaged
    \/ TickEnd

\* Entry signals are available: strategy.analyze() returns a buy signal.
TickBuys == \E m \in Mints, v \in TickSols : TickBuy(m, 100, 2, v, TRUE, TRUE)

\* The loop keeps ticking, and a tick that reaches its entries again and
\* again is given a buy signal.
SpecTickFair ==
    Init /\ [][NextTick]_vars /\ WF_vars(TickSteps) /\ SF_vars(TickBuys)

CooldownExpired == risk.cooldownUntil # <<>> /\ now >= risk.cooldownUntil[1]

\* the agent is flat and its daily loss limit is not reached
FlatWithinDailyLimit ==
    ~DailyLossLimitHit(risk) /\ DOMAIN positions = {} /\ store = <<>>

\* C30: once a loss-streak cooldown has expired, the agent, holding no
\* position and not at its daily loss limit, eventually attempts a new entry.
C30_EntriesResumeAfterCooldown ==
    (CooldownExpired /\ FlatWithinDailyLimit) ~> (lastOp.op = "executeBuy")

-----------------------------------------------------------------------------
(* Partial sells awaited while other trades run (SpecPartial). *)

PartialAmounts  == {2, 4}
PartialSols     == {4, 8}
PartialReceived == {2, 5}
PartialInstants == {Minutes(2), Minutes(4)}

NextPartial ==
    \/ \E m \in Mints, a \in PartialAmounts, v \in PartialSols :
          /\ ExecuteBuy(m, 100, a, v, 40, TRUE, TRUE)
          /\ loop' = IF riskOut'.canTrade THEN Detached(loop, m) ELSE loop
    \/ \E m \in Mints : PartialSellBegins(m, partialTakeSize)
    \/ \E ok \in BOOLEAN, r \in PartialReceived : PartialSellReturns(TRUE, ok, r)
    \/ \E m \in Mints, r \in PartialReceived :
          /\ ExecuteSell(m, TRUE, TRUE, r)
          /\ loop' = IF m \in DOMAIN positions' THEN loop ELSE Detached(loop, m)
    \/ \E t \in PartialInstants : AdvanceTime(t)

SpecPartial == Init /\ [][NextPartial]_vars

\* C39: every position of the ledger has amount > 0 and entry value >= 0.
C39_HeldAmountPositive ==
    \A m \in DOMAIN holdings :
       holdings[m].amount > 0 /\ holdings[m].entrySolValue >= 0

-----------------------------------------------------------------------------
(* Emergency exit signals (SpecEmergency). *)

EmergencyPrices   == {79, 160}
EmergencyInstants == {Minutes(30)}

NextEmergency ==
    \/ Connect
    \/ Disconnect
    \/ \E s \in 1..MaxSockets : SocketOpen(s)
    \/ \E m \in Mints, e \in EntryPrices : AddPosition(m, e)
    \/ \E s \in 1..MaxSockets, m \in Mints, p \in EmergencyPrices : StreamMessage(s, m, p)
    \/ CheckAllPositions
    \/ \E p \in EmergencyPrices : PollReturn(p)
    \/ \E m \in Mints : RemovePosition(m)
    \/ GetEmergencyExitSignals
    \/ \E t \in EmergencyInstants : AdvanceTime(t)

SpecEmergency == Init /\ [][NextEmergency]_vars

\* C40: getEmergencyExitSignals returns exactly one full_sell signal of
\* urgency critical for each open position and none for another asset, and
\* changes no position, risk or feed state.
C40_EmergencySignalsForEveryPosition ==
    [][ lastOp'.op = "getEmergencyExitSignals" =>
          LET sigs == lastOp'.args[1] IN
          /\ \A m \in DOMAIN positions :
                Cardinality({i \in DOMAIN sigs : sigs[i].mint = m}) = 1
          /\ \A i \in DOMAIN sigs :
                /\ sigs[i].mint \in DOMAIN positions
                /\ sigs[i].type = "full_sell"
                /\ sigs[i].urgency = "critical"
                /\ sigs[i].sellPercent = 100
          /\ UNCHANGED <<positions, order, streamPrices, partialExits, risk,
                         dailyResetDate, feedVars>>
      ]_vars

\* C40 witness: the signal for an open position that has no price at all,
\* the feed not being connected.
C40_Witness ==
    /\ lastOp.op = "getEmergencyExitSignals"
    /\ Len(lastOp.args[1]) = 1
    /\ DOMAIN positions = {"A"}
    /\ streamPrices = <<>>
    /\ ~feed.isConnected
    /\ ~Truthy(positions["A"].trailingStopPrice)

-----------------------------------------------------------------------------
(* The position ledger fed by the price feed (SpecFallback). *)

FallbackPrices == {135, 160}

NextFallback ==
    \/ Connect
    \/ Disconnect
    \/ \E s \in 1..MaxSockets : SocketOpen(s)
    \/ \E s \in 1..MaxSockets : SocketClosed(s)
    \/ \E m \in Mints, e \in EntryPrices : AddPosition(m, e)
    \/ \E s \in 1..MaxSockets, m \in Mints, p \in FallbackPrices : StreamMessage(s, m, p)
    \/ CheckAllPositions
    \/ \E p \in FallbackPrices \cup {0} : PollReturn(p)

SpecFallback == Init /\ [][NextFallback]_vars

NoLiveConnection ==
    ~feed.isConnected /\ \A s \in DOMAIN socks : socks[s].state # "open"

\* C18: while the feed has no live connection a tick evaluates positions
\* only with polled prices: checkAllPositions evaluates nothing before its
\* polling query returns, and each return evaluates the one polled position.
C18_PolledWithoutLiveConnection ==
    [][ NoLiveConnection =>
          /\ lastOp'.op = "checkAllPositions" => signals' = <<>>
          /\ lastOp'.op = "pollReturn" => Len(signals') <= Len(signals) + 1
      ]_vars

-----------------------------------------------------------------------------
(* Aggregate exposure of the buys the guardrail permits (SpecExposure). *)

ExposureSols      == {5, 8}
ExposureBalances  == {40}
ExposureReceived  == {8}
ExposureInstants  == {Minutes(1), Minutes(2), Minutes(3)}

NextExposure ==
    \/ \E m \in Mints, v \in ExposureSols, b \in ExposureBalances, bought \in BOOLEAN :
          ExecuteBuy(m, 100, 1, v, b, bought, TRUE) /\ UNCHANGED loop
    \/ \E m \in Mints, r \in ExposureReceived :
          ExecuteSell(m, TRUE, TRUE, r) /\ UNCHANGED loop
    \/ \E t \in ExposureInstants : AdvanceTime(t)

SpecExposure == Init /\ [][NextExposure]_vars

\* C31: after a buy that canOpenPosition permitted, the entry capital of all
\* stored positions together is at most maxExposurePercent of the balance the
\* check was made with.
C31_ExposureWithinLimitAfterBuy ==
    [][ (lastOp'.op = "executeBuy" /\ riskOut'.canTrade /\ lastOp'.args[5])
        => CurrentExposure(store') * 100 <= maxExposurePercent * lastOp'.args[7]
      ]_vars

====
